---- MODULE Spec2Model ----
(***************************************************************************)
(* Model of the LLM request pipeline of codalyzer:                         *)
(*   core/analyzer.py        AnalysisCache, CodeComplexityAnalyzer         *)
(*   providers/groq_provider.py   GroqProvider (transport, complete,       *)
(*                                complete_json)                           *)
(*                                                                         *)
(* A task is one asyncio coroutine chain.  An action runs the code from    *)
(* one suspension point (client.post, asyncio.sleep, tenacity's backoff    *)
(* sleep, client.aclose) to the next, as the event loop does.              *)
(*                                                                         *)
(* Strings are sequences of one-character strings.  A response text is a   *)
(* sequence of tokens: "{" and "}" are the braces, "k" stands for a member *)
(* prefix ("key":), "1" for a scalar JSON value, " " for whitespace and    *)
(* "x" for a character of prose.  confidence_score is in tenths.           *)
(***************************************************************************)
EXTENDS Integers, Sequences, FiniteSets, TLC

\* ------------------------------------------------------------ bounds
\* Latest clock value the model lets datetime.now() reach.
MaxTime == 3
\* Cache TTL in clock ticks (cache_ttl_minutes of the constructor).
TTL == 2
\* Facade / provider calls started in one behaviour.
MaxCalls == 3
\* Failed HTTP attempts the remote may produce during one call (facade runs).
MaxFaults == 2
\* Failed HTTP attempts the remote may produce during one call (provider runs).
MaxFaultsProvider == 12
\* Longest batch handed to analyze_batch.
MaxBatch == 3
\* Longest response text drawn for complete_json.
MaxTextLen == 4
\* Largest GroqConfig.max_retries configured.
MaxRetries == 4
\* Longest functions list of a response.
MaxFunctions == 3

\* ------------------------------------------------------------ program constants
\* stop_after_attempt(3) of the retry decorator.
StopAfterAttempt == 3
\* asyncio.sleep(2) after a rate-limit error.
Cooldown == 2
\* response[:200] in complete_json's error; the model's texts are shorter.
PreviewLen == 200
\* confidence_score default and clamp limits, in tenths.
DefaultConfidence == 8
ConfidenceMin == 0
ConfidenceMax == 10
\* Default of GroqConfig.max_retries.
DefaultMaxRetries == 3

\* Coroutine chains that may run on one facade.
Tasks == {1, 2}

Min(a, b) == IF a <= b THEN a ELSE b
Max(a, b) == IF a >= b THEN a ELSE b

\* ------------------------------------------------------------ strings
RECURSIVE LStrip(_)
\* str.lstrip(): drop leading whitespace.
LStrip(s) == IF s # <<>> /\ Head(s) = " " THEN LStrip(Tail(s)) ELSE s

RECURSIVE RStrip(_)
\* str.rstrip(): drop trailing whitespace.
RStrip(s) ==
  IF s # <<>> /\ s[Len(s)] = " " THEN RStrip(SubSeq(s, 1, Len(s) - 1)) ELSE s

\* str.strip()
Strip(s) == RStrip(LStrip(s))

\* str.find(ch): 0-based index of the first ch, -1 if none.
Find(s, ch) ==
  LET hits == {i \in 1..Len(s) : s[i] = ch} IN
  IF hits = {} THEN -1 ELSE (CHOOSE i \in hits : \A j \in hits : i <= j) - 1

\* str.rfind(ch): 0-based index of the last ch, -1 if none.
RFind(s, ch) ==
  LET hits == {i \in 1..Len(s) : s[i] = ch} IN
  IF hits = {} THEN -1 ELSE (CHOOSE i \in hits : \A j \in hits : j <= i) - 1

\* Python slice s[a:b] for 0 <= a, b (clipped to the string).
Slice(s, a, b) == SubSeq(s, a + 1, Min(b, Len(s)))

\* ------------------------------------------------------------ JSON
RECURSIVE SkipWs(_, _)
\* 1-based position of the first non-whitespace token at or after i.
SkipWs(s, i) == IF i <= Len(s) /\ s[i] = " " THEN SkipWs(s, i + 1) ELSE i

RECURSIVE ParseValue(_, _)
\* json's decoder on the token grammar
\*    value ::= "1" | "{" "}" | "{" "k" value "}"
\* from position i: the position after the value, 0 if there is none.
ParseValue(s, i) ==
  LET a == SkipWs(s, i) IN
  IF a > Len(s) THEN 0
  ELSE IF s[a] = "1" THEN a + 1
  ELSE IF s[a] = "{" THEN
    LET b == SkipWs(s, a + 1) IN
    IF b > Len(s) THEN 0
    ELSE IF s[b] = "}" THEN b + 1
    ELSE IF s[b] = "k" THEN
      LET v == ParseValue(s, b + 1) IN
      IF v = 0 THEN 0
      ELSE LET c == SkipWs(s, v) IN
           IF c <= Len(s) /\ s[c] = "}" THEN c + 1 ELSE 0
    ELSE 0
  ELSE 0

\* json.loads(s): "dict" for an object, "scalar" for another JSON value,
\* "error" when it raises JSONDecodeError.
JsonLoads(s) ==
  LET e == ParseValue(s, 1) IN
  IF e = 0 \/ SkipWs(s, e) # Len(s) + 1 THEN "error"
  ELSE IF s[SkipWs(s, 1)] = "{" THEN "dict" ELSE "scalar"

\* Mutant of ParseJsonText: end = rfind("}") without the + 1.
ParseJsonTextShortSpan(response) ==
  IF JsonLoads(response) # "error"
  THEN [kind |-> JsonLoads(response), text |-> response]
  ELSE
    LET start == Find(response, "{")
        end == RFind(response, "}")
    IN
    IF start # -1 /\ end > start /\ JsonLoads(Slice(response, start, end)) # "error"
    THEN [kind |-> JsonLoads(Slice(response, start, end)),
          text |-> Slice(response, start, end)]
    ELSE [kind |-> "error", text |-> Slice(response, 0, PreviewLen)]

\* complete_json's parsing of the text complete returned: [kind, text] with
\* kind "dict" or "scalar" and the text that was parsed, or kind "error" and
\* the preview the GroqAPIError carries.
ParseJsonText(response) ==
  IF JsonLoads(response) # "error"
  THEN [kind |-> JsonLoads(response), text |-> response]
  ELSE
    LET start == Find(response, "{")
        end == RFind(response, "}") + 1
    IN
    IF start # -1 /\ end > start /\ JsonLoads(Slice(response, start, end)) # "error"
    THEN [kind |-> JsonLoads(Slice(response, start, end)),
          text |-> Slice(response, start, end)]
    ELSE [kind |-> "error", text |-> Slice(response, 0, PreviewLen)]

\* ------------------------------------------------------------ values
\* Exceptions: the class, the status_code attribute (0 for None) and, for the
\* errors whose message embeds another error, that error's class and status.
Error(type, status) ==
  [type |-> type, status |-> status, wtype |-> "none", wstatus |-> 0]
NoError == Error("none", 0)
Wrapping(type, e) ==
  [type |-> type, status |-> 0, wtype |-> e.type, wstatus |-> e.status]

\* What the model put in "confidence_score": a number (tenths), nothing, or
\* a JSON value that is no number (null, a string).
Conf(k, v) == [k |-> k, v |-> v]
ConfMissing == Conf("missing", 0)
ConfNull == Conf("null", 0)

\* CodeComplexityResult, as far as the model follows it: confidence_score
\* the functions list and the completion that produced it (standing for the
\* other fields).
NoResult == [conf |-> -1, id |-> 0, functions |-> <<>>]

\* What the model put in "functions": nothing, a JSON value that cannot be
\* iterated (null, a number), or a list of entries.  An entry is
\*   kind  "dict" for a JSON object, "str" for any other JSON value
\*   name  the "name" of the object: "missing", "null" or the name
Funcs(k, v) == [k |-> k, v |-> v]
NoFunctions == Funcs("missing", <<>>)

\* An HTTP exchange as the remote decides it.
\*   kind   "timeout" (httpx.TimeoutException / NetworkError) or "http"
\*   status the HTTP status
\*   shape  "ok", or "nochoices" when choices[0].message.content is absent
\*   text   choices[0].message.content
\*   conf   the confidence_score of the object in the text
\*   fields "ok", or "bad" when a required field has a value pydantic rejects
\*   tokens usage.total_tokens
\*   functions the functions of the object in the text
Http(status) ==
  [kind |-> "http", status |-> status, shape |-> "ok", text |-> <<>>,
   conf |-> ConfMissing, fields |-> "ok", tokens |-> 0,
   functions |-> NoFunctions]
Timeout == [Http(0) EXCEPT !.kind = "timeout"]
Ok(text, conf) == [Http(200) EXCEPT !.text = text, !.conf = conf, !.tokens = 1]

\* ------------------------------------------------------------ AnalysisCache
NoEntry == [result |-> NoResult, timestamp |-> -1]

\* AnalysisCache._hash_code: the truncated digest, taken as collision-free on
\* the modelled codes.
HashCode(code) == <<"sha256", code>>

\* The test of AnalysisCache.get: the entry is still honoured at time t.
Fresh(entry, t) == t - entry.timestamp < TTL

\* Mutant of CacheGet: the age test inverted (> instead of <).
CacheGetInverted(c, code, t) ==
  LET key == HashCode(code) IN
  IF key \in DOMAIN c
  THEN IF t - c[key].timestamp > TTL
       THEN [result |-> c[key].result, cache |-> c]
       ELSE [result |-> NoResult,
             cache |-> [k \in DOMAIN c \ {key} |-> c[k]]]
  ELSE [result |-> NoResult, cache |-> c]

\* Mutant of CacheGet: an expired entry is reported absent but left in place.
CacheGetKeepsExpired(c, code, t) ==
  LET key == HashCode(code) IN
  IF key \in DOMAIN c /\ Fresh(c[key], t)
  THEN [result |-> c[key].result, cache |-> c]
  ELSE [result |-> NoResult, cache |-> c]

\* AnalysisCache.get: the result (NoResult for None) and the cache after it.
CacheGet(c, code, t) ==
  LET key == HashCode(code) IN
  IF key \in DOMAIN c
  THEN IF Fresh(c[key], t)
       THEN [result |-> c[key].result, cache |-> c]
       ELSE [result |-> NoResult,
             cache |-> [k \in DOMAIN c \ {key} |-> c[k]]]
  ELSE [result |-> NoResult, cache |-> c]

\* Mutant of CacheSet: an entry that exists is kept.
CacheSetKeepsFirst(c, code, result, t) ==
  LET key == HashCode(code)
      entry == [result |-> result, timestamp |-> t]
  IN [k \in DOMAIN c \cup {key} |-> IF k \in DOMAIN c THEN c[k] ELSE entry]

\* AnalysisCache.set
CacheSet(c, code, result, t) ==
  LET key == HashCode(code)
      entry == [result |-> result, timestamp |-> t]
  IN [k \in DOMAIN c \cup {key} |-> IF k = key THEN entry ELSE c[k]]

\* AnalysisCache.clear
CacheClear(c) == [k \in {} |-> NoEntry]

\* ------------------------------------------------------------ _parse_result
\* min(1.0, max(0.0, v)) on tenths.
Clamp(v) == Min(ConfidenceMax, Max(ConfidenceMin, v))

\* FunctionComplexity(name=func_data.get("name", "unknown"), ...): [error,
\* func].  An entry that is no object has no .get (AttributeError); a name
\* that is null is no str (ValidationError); a missing name is "unknown".
MakeFunction(e) ==
  IF e.kind # "dict"
  THEN [error |-> Error("AttributeError", 0), func |-> [name |-> ""]]
  ELSE IF e.name = "null"
  THEN [error |-> Error("ValidationError", 0), func |-> [name |-> ""]]
  ELSE [error |-> NoError,
        func |-> [name |-> IF e.name = "missing" THEN "unknown" ELSE e.name]]

\* Mutant of ParseFunctions: the first entry that raises ends the loop.
ParseFunctionsStopsAtBad(fs) ==
  LET functions[i \in 0..Len(fs)] ==
        IF i = 0 THEN [list |-> <<>>, stopped |-> FALSE]
        ELSE LET m == MakeFunction(fs[i]) IN
             IF functions[i - 1].stopped \/ m.error # NoError
             THEN [list |-> functions[i - 1].list, stopped |-> TRUE]
             ELSE [list |-> Append(functions[i - 1].list, m.func),
                   stopped |-> FALSE]
  IN functions[Len(fs)].list

\* The loop over response.get("functions", []): functions[i] is the list
\* after the i-th entry; each entry is constructed inside its own try,
\* appended when that succeeds and skipped ('except Exception: continue')
\* when it raises.
ParseFunctions(fs) ==
  LET functions[i \in 0..Len(fs)] ==
        IF i = 0 THEN <<>>
        ELSE LET m == MakeFunction(fs[i]) IN
             IF m.error # NoError THEN functions[i - 1]
             ELSE Append(functions[i - 1], m.func)
  IN functions[Len(fs)]

\* CodeComplexityAnalyzer._parse_result on the parsed response of completion
\* id: [error, result].  A scalar has no .get (AttributeError); a functions
\* value that is no list cannot be iterated (TypeError); a
\* confidence_score that is no number cannot be compared (TypeError); a field
\* pydantic rejects raises ValidationError.
ParseResult(kind, r, id) ==
  IF kind # "dict" THEN [error |-> Error("AttributeError", 0), result |-> NoResult]
  ELSE IF r.functions.k = "null"
  THEN [error |-> Error("TypeError", 0), result |-> NoResult]
  ELSE IF r.conf.k = "null"
  THEN [error |-> Error("TypeError", 0), result |-> NoResult]
  ELSE IF r.fields # "ok"
  THEN [error |-> Error("ValidationError", 0), result |-> NoResult]
  ELSE [error |-> NoError,
        result |-> [conf |-> Clamp(IF r.conf.k = "missing" THEN DefaultConfidence
                                   ELSE r.conf.v),
                    id |-> id,
                    functions |-> ParseFunctions(r.functions.v)]]

\* ------------------------------------------------------------ state
VARIABLES
  task,       \* per task: the frame of the call it is in (locals and position)
  providers,  \* the GroqProvider objects created so far
  fprovider,  \* CodeComplexityAnalyzer._provider: index in providers, 0 = None
  cache,      \* AnalysisCache._cache: key -> [result, timestamp]
  now,        \* datetime.now()
  cfg,        \* constructor arguments and the remote's fault allowance
  ncalls,     \* calls started so far
  serial,     \* results built so far (gives each result its identity)
  stored,     \* history: per code, what analyze / analyze_quick last stored
  options     \* language_hint of the AnalysisOptions object the caller keeps

vars ==
  <<task, providers, fprovider, cache, now, cfg, ncalls, serial, stored, options>>

\* The part of the state the handlers below transform.
State ==
  [task |-> task, providers |-> providers, fprovider |-> fprovider,
   cache |-> cache, serial |-> serial, stored |-> stored, options |-> options]

Install(S) ==
  /\ task' = S.task
  /\ providers' = S.providers
  /\ fprovider' = S.fprovider
  /\ cache' = S.cache
  /\ serial' = S.serial
  /\ stored' = S.stored
  /\ options' = S.options

\* language_hint = None (or the empty string: both are falsy where it is read).
NoHint == ""

\* The prompts of PromptBuilder, as far as the model follows them: which
\* builder made it, the code(s) embedded and the language sentence
\* ("The code is written in <hint>."), <<>> when it has none.
NoPrompt == [builder |-> "none", code |-> <<>>, code2 |-> <<>>, language |-> <<>>]

\* PromptBuilder.build_analysis_prompt: language_context is the sentence
\* when options.language_hint is truthy and empty otherwise.
BuildAnalysisPrompt(code, hint) ==
  [builder |-> "analysis", code |-> code, code2 |-> <<>>,
   language |-> IF hint # NoHint
                THEN <<"The code is written in ", hint, ".">> ELSE <<>>]

\* PromptBuilder.build_quick_analysis_prompt
BuildQuickAnalysisPrompt(code) ==
  [builder |-> "quick", code |-> code, code2 |-> <<>>, language |-> <<>>]

\* PromptBuilder.build_comparison_prompt
BuildComparisonPrompt(code1, code2) ==
  [builder |-> "comparison", code |-> code1, code2 |-> code2, language |-> <<>>]

\* str.lower() on the letters.
Uppercase ==
  <<"A", "B", "C", "D", "E", "F", "G", "H", "I", "J", "K", "L", "M",
    "N", "O", "P", "Q", "R", "S", "T", "U", "V", "W", "X", "Y", "Z">>
Lowercase ==
  <<"a", "b", "c", "d", "e", "f", "g", "h", "i", "j", "k", "l", "m",
    "n", "o", "p", "q", "r", "s", "t", "u", "v", "w", "x", "y", "z">>

LowerChar(c) ==
  IF \E i \in DOMAIN Uppercase : Uppercase[i] = c
  THEN Lowercase[CHOOSE i \in DOMAIN Uppercase : Uppercase[i] = c]
  ELSE c

\* Mutant of Lower: the suffix is looked up as it is written.
LowerNone(x) == x

\* str.lower()
Lower(x) == [i \in DOMAIN x |-> LowerChar(x[i])]

\* ext_to_lang of analyze_file: suffix and language.
ExtToLang ==
  {<<<<".", "p", "y">>, "Python">>, <<<<".", "j", "s">>, "JavaScript">>,
   <<<<".", "t", "s">>, "TypeScript">>, <<<<".", "j", "a", "v", "a">>, "Java">>,
   <<<<".", "c", "p", "p">>, "C++">>, <<<<".", "c">>, "C">>,
   <<<<".", "g", "o">>, "Go">>, <<<<".", "r", "s">>, "Rust">>,
   <<<<".", "r", "b">>, "Ruby">>, <<<<".", "p", "h", "p">>, "PHP">>,
   <<<<".", "s", "w", "i", "f", "t">>, "Swift">>, <<<<".", "k", "t">>, "Kotlin">>,
   <<<<".", "c", "s">>, "C#">>, <<<<".", "s", "c", "a", "l", "a">>, "Scala">>,
   <<<<".", "r">>, "R">>, <<<<".", "m">>, "MATLAB">>,
   <<<<".", "j", "l">>, "Julia">>, <<<<".", "l", "u", "a">>, "Lua">>,
   <<<<".", "p", "l">>, "Perl">>, <<<<".", "s", "h">>, "Shell">>,
   <<<<".", "s", "q", "l">>, "SQL">>}

\* ext_to_lang.get(ext): the language, NoHint for None.
ExtToLangGet(ext) ==
  IF \E e \in ExtToLang : e[1] = ext
  THEN (CHOOSE e \in ExtToLang : e[1] = ext)[2]
  ELSE NoHint

\* A frame before any call.
\*   pc       "idle", "post" (awaiting client.post), "backoff" (tenacity's
\*            sleep), "cooldown" (asyncio.sleep(2)), "aclose" (awaiting
\*            client.aclose), "pacing" (asyncio.sleep(0.5)), "done"
\*   op       the operation running; outer = "batch" inside analyze_batch;
\*            scoped when the call is the body of an 'async with' on the facade
\*   outcome  "none", "ok" or "error" with result / value / error
\*   history of this call: trace (the events of complete), faults, hit
\*            (served from the cache), newprov (it created the provider),
\*            text (what complete returned), raw (the code argument), prior
\*            and at (what `stored` held for the code at the lookup, and
\*            when), ncomplete (calls of complete), resp and rawtext (the
\*            last 200 response and its content), snippets (the argument
\*            of analyze_batch), log (how each analyze of the batch ended),
\*            prompt (the prompt handed to complete_json), raw2 (compare's
\*            second code), use_fallback (the argument of complete), repeat
\*            (the task's previous call was the same close), given (the
\*            language_hint of the options as the caller passed them),
\*            suffix (the suffix of the path given to analyze_file),
\*            cache0 (the cache when the call began, where a run records it)
IdleFrame ==
  [pc |-> "idle", op |-> "none", outer |-> "none", scoped |-> FALSE,
   code |-> <<>>, prov |-> 0, models |-> <<>>, midx |-> 0, retry |-> FALSE,
   attempt |-> 0, last_error |-> NoError,
   outcome |-> "none", result |-> NoResult,
   value |-> [kind |-> "none", text |-> <<>>], error |-> NoError,
   items |-> <<>>, results |-> <<>>, pauses |-> 0,
   trace |-> <<>>, faults |-> 0, hit |-> FALSE, newprov |-> FALSE,
   text |-> <<>>, raw |-> <<>>, prior |-> NoEntry, at |-> 0, ncomplete |-> 0,
   rawtext |-> <<>>, resp |-> Http(0), snippets |-> <<>>, log |-> <<>>,
   prompt |-> NoPrompt, raw2 |-> <<>>, use_fallback |-> TRUE, repeat |-> FALSE,
   given |-> NoHint, suffix |-> <<>>, cache0 |-> <<>>]

Event(e, m, err) == [e |-> e, m |-> m, type |-> err.type, status |-> err.status]
Log(S, t, e, err) ==
  LET f == S.task[t] IN
  [S EXCEPT !.task[t].trace = Append(@, Event(e, f.models[f.midx], err))]

\* GroqProvider.__init__
\* delivered / delivered_tokens are history: the completions complete has
\* returned to its caller and the usage.total_tokens of their responses.
NewProvider ==
  [client |-> "none", opened |-> 0, tokens |-> 0, requests |-> 0,
   delivered |-> 0, delivered_tokens |-> 0]

\* ------------------------------------------------------------ GroqProvider
\* Mutant of GetClient: a client is created only when there is none.
GetClientOnlyNone(S, p) ==
  IF S.providers[p].client = "none"
  THEN [S EXCEPT !.providers[p].client = "open", !.providers[p].opened = @ + 1]
  ELSE S

\* GroqProvider._get_client on provider p.
GetClient(S, p) ==
  IF S.providers[p].client \in {"none", "closed"}
  THEN [S EXCEPT !.providers[p].client = "open", !.providers[p].opened = @ + 1]
  ELSE S

\* GroqProvider.close on provider p, called directly: up to the suspension
\* inside client.aclose, or all of it when no client is open.
ProviderClose(S, t, p) ==
  IF S.providers[p].client = "open"
  THEN [S EXCEPT !.providers[p].client = "closed", !.task[t].pc = "paclose"]
  ELSE [S EXCEPT !.task[t].pc = "done"]

\* GroqProvider.close after client.aclose has returned.
ProviderCloseResume(S, t) == [S EXCEPT !.task[t].pc = "done"]

\* GroqProvider.get_stats on provider p.
GetStats(p) ==
  [total_tokens |-> providers[p].tokens, requests |-> providers[p].requests,
   model |-> cfg.model]

\* _make_request up to the suspension at client.post.
MakeRequest(S, t) ==
  LET S1 == GetClient(S, S.task[t].prov) IN
  [Log(S1, t, "post", NoError) EXCEPT !.task[t].pc = "post"]

\* A call of the decorated _make_request: tenacity's first attempt.
StartTransport(S, t) ==
  MakeRequest(Log([S EXCEPT !.task[t].attempt = 1], t, "request", NoError), t)

\* Mutant of ModelsToTry: the fallback is a candidate whatever use_fallback.
ModelsToTryIgnoresFlag(use_fallback) ==
  IF cfg.fallback_model # cfg.model
  THEN <<cfg.model, cfg.fallback_model>>
  ELSE <<cfg.model>>

\* The candidate list of complete.
ModelsToTry(use_fallback) ==
  IF use_fallback /\ cfg.fallback_model # cfg.model
  THEN <<cfg.model, cfg.fallback_model>>
  ELSE <<cfg.model>>

\* complete up to its first suspension.
BeginComplete(S, t, use_fallback) ==
  StartTransport(
    [S EXCEPT !.task[t].models = ModelsToTry(use_fallback),
              !.task[t].use_fallback = use_fallback,
              !.task[t].ncomplete = @ + 1,
              !.task[t].midx = 1,
              !.task[t].retry = FALSE,
              !.task[t].last_error = NoError], t)

\* ------------------------------------------------------------ leaving a call
\* CodeComplexityAnalyzer.close (also __aexit__), up to the suspension inside
\* client.aclose, which marks the client closed before it suspends.
CloseFacade(S, t) ==
  IF S.fprovider = 0 THEN [S EXCEPT !.task[t].pc = "done"]
  ELSE IF S.providers[S.fprovider].client = "open"
  THEN [S EXCEPT !.providers[S.fprovider].client = "closed",
                 !.task[t].pc = "aclose"]
  ELSE [S EXCEPT !.fprovider = 0, !.task[t].pc = "done"]

\* Mutant of CloseResume: close leaves self._provider set.
CloseResumeKeepsProvider(S, t) == [S EXCEPT !.task[t].pc = "done"]

\* close after client.aclose has returned.
CloseResume(S, t) == [S EXCEPT !.fprovider = 0, !.task[t].pc = "done"]

\* Mutant of Leave: the facade is closed only after a body that returned.
LeaveSkipsCloseOnError(S, t) ==
  IF S.task[t].scoped /\ S.task[t].outcome = "ok"
  THEN CloseFacade(S, t) ELSE [S EXCEPT !.task[t].pc = "done"]

\* The outermost operation of the task ends: __aexit__ when it was the body
\* of an 'async with'.
Leave(S, t) ==
  IF S.task[t].scoped THEN CloseFacade(S, t) ELSE [S EXCEPT !.task[t].pc = "done"]

\* AnalysisError(error_type, message, recoverable=True) / a result, as
\* analyze_batch appends it.
BatchEntry(f) ==
  IF f.outcome = "ok"
  THEN [kind |-> "result", result |-> f.result, error_type |-> "none",
        recoverable |-> FALSE]
  ELSE [kind |-> "AnalysisError", result |-> NoResult,
        error_type |-> f.error.type, recoverable |-> TRUE]

\* History: how the analyze of one batch item ended.
Ended(f) ==
  [raw |-> f.raw, outcome |-> f.outcome, result |-> f.result, error |-> f.error]

\* Mutant of Finish: an error of one item ends analyze_batch.
FinishAborts(S, t) ==
  IF S.task[t].outer = "batch" /\ S.task[t].outcome = "ok"
  THEN [S EXCEPT !.task[t].results = Append(@, BatchEntry(S.task[t])),
                 !.task[t].items = Tail(@),
                 !.task[t].log = Append(@, Ended(S.task[t])),
                 !.task[t].pc = "pacing"]
  ELSE Leave([S EXCEPT !.task[t].op = IF S.task[t].outer = "batch"
                                       THEN "analyze_batch" ELSE @,
                       !.task[t].outer = "none"], t)

\* An operation ends with the outcome its frame holds.  Inside analyze_batch
\* the outcome is appended and the loop sleeps before it goes on.
Finish(S, t) ==
  IF S.task[t].outer = "batch"
  THEN [S EXCEPT !.task[t].results = Append(@, BatchEntry(S.task[t])),
                 !.task[t].items = Tail(@),
                 !.task[t].log = Append(@, Ended(S.task[t])),
                 !.task[t].pc = "pacing"]
  ELSE Leave(S, t)

Raise(S, t, e) ==
  Finish([S EXCEPT !.task[t].outcome = "error", !.task[t].error = e,
                   !.task[t].result = NoResult], t)

ReturnResult(S, t, res) ==
  Finish([S EXCEPT !.task[t].outcome = "ok", !.task[t].result = res,
                   !.task[t].error = NoError], t)

ReturnValue(S, t, v) ==
  Finish([S EXCEPT !.task[t].outcome = "ok", !.task[t].value = v,
                   !.task[t].error = NoError], t)

\* asyncio.CancelledError (or KeyboardInterrupt) thrown into the task at its
\* suspension point: a BaseException, which passes every 'except Exception'
\* of complete and of analyze_batch and is not retried by tenacity, so the
\* outermost operation ends with it; __aexit__ still runs.
Cancelled(S, t) ==
  Leave([S EXCEPT !.task[t].outcome = "error",
                  !.task[t].error = Error("CancelledError", 0),
                  !.task[t].result = NoResult,
                  !.task[t].op = IF S.task[t].outer = "batch"
                                 THEN "analyze_batch" ELSE @,
                  !.task[t].outer = "none"], t)

\* ------------------------------------------------------------ after complete
\* Mutant of AfterCompleteJson: the cache is written before the result is
\* known to be complete.
AfterCompleteJsonCachesFirst(S, t, r, parsed) ==
  LET f == S.task[t] IN
  IF f.op \in {"compare", "complete_json"} THEN ReturnValue(S, t, parsed)
  ELSE
    LET pr == ParseResult(parsed.kind, r, S.serial + 1)
        S1 == [S EXCEPT !.serial = @ + 1, !.task[t].value = parsed]
        S2 == IF cfg.cache_enabled
              THEN [S1 EXCEPT !.cache = CacheSet(@, f.code, pr.result, now)]
              ELSE S1
    IN
    IF pr.error # NoError THEN Raise(S2, t, pr.error)
    ELSE ReturnResult(S2, t, pr.result)

\* analyze / analyze_quick once complete_json has returned `parsed`:
\* _parse_result, cache set, return.  compare and a direct complete_json
\* return the parsed value as it is.
AfterCompleteJson(S, t, r, parsed) ==
  LET f == S.task[t] IN
  IF f.op \in {"compare", "complete_json"} THEN ReturnValue(S, t, parsed)
  ELSE
    LET pr == ParseResult(parsed.kind, r, S.serial + 1) IN
    IF pr.error # NoError THEN Raise([S EXCEPT !.task[t].value = parsed], t, pr.error)
    ELSE
      LET S1 == [S EXCEPT !.serial = @ + 1, !.task[t].value = parsed]
          S2 == IF cfg.cache_enabled
                THEN [S1 EXCEPT
                        !.cache = CacheSet(@, f.code, pr.result, now),
                        !.stored = [c \in DOMAIN @ \cup {f.code} |->
                                      IF c = f.code
                                      THEN [result |-> pr.result, timestamp |-> now]
                                      ELSE @[c]]]
                ELSE S1
      IN ReturnResult(S2, t, pr.result)

\* complete has returned `content`: the rest of complete_json and its caller.
AfterComplete(S, t, r, content) ==
  LET S1 == [S EXCEPT !.task[t].text = content] IN
  IF S.task[t].op = "complete"
  THEN ReturnValue(S1, t, [kind |-> "text", text |-> content])
  ELSE
    LET pj == ParseJsonText(content) IN
    IF pj.kind = "error"
    THEN Raise([S1 EXCEPT !.task[t].value = pj], t,
               Wrapping("GroqAPIError", Error("JSONDecodeError", 0)))
    ELSE AfterCompleteJson(S1, t, r, pj)

\* complete's last line: every candidate failed.
CompleteFailed(S, t) ==
  Raise(S, t, Wrapping("GroqAPIError", S.task[t].last_error))

\* 'continue' of the loop over models_to_try.
NextModel(S, t) ==
  LET f == S.task[t] IN
  IF f.midx < Len(f.models)
  THEN StartTransport([S EXCEPT !.task[t].midx = @ + 1,
                                !.task[t].retry = FALSE], t)
  ELSE CompleteFailed(S, t)

\* Mutant of RequestFailed: every first failure waits and retries the model,
\* not only a rate limit.
RequestFailedAlwaysWaits(S, t, e) ==
  LET S1 == Log(S, t, "fail", e) IN
  IF ~S.task[t].retry
  THEN [Log(S1, t, "sleep", Error("none", Cooldown)) EXCEPT !.task[t].pc = "cooldown"]
  ELSE NextModel([S1 EXCEPT !.task[t].last_error = e], t)

\* Mutant of RequestFailed: last_error keeps the first error recorded.
RequestFailedKeepsFirst(S, t, e) ==
  LET S1 == Log(S, t, "fail", e) IN
  IF ~S.task[t].retry /\ e.type = "GroqRateLimitError"
  THEN [Log(S1, t, "sleep", Error("none", Cooldown)) EXCEPT !.task[t].pc = "cooldown"]
  ELSE NextModel([S1 EXCEPT !.task[t].last_error =
                              IF @ = NoError THEN e ELSE @], t)

\* An exception leaves _make_request (or the lines after it) inside the loop:
\* the except clauses of complete.
RequestFailed(S, t, e) ==
  LET S1 == Log(S, t, "fail", e) IN
  IF ~S.task[t].retry /\ e.type = "GroqRateLimitError"
  THEN [Log(S1, t, "sleep", Error("none", Cooldown)) EXCEPT !.task[t].pc = "cooldown"]
  ELSE NextModel([S1 EXCEPT !.task[t].last_error = e], t)

\* Mutant of AfterCooldown: after the wait, go on to the next model.
AfterCooldownSkips(S, t) ==
  NextModel([S EXCEPT !.task[t].last_error = Error("GroqRateLimitError", 429)], t)

\* After asyncio.sleep(2): the second request to the same model.
AfterCooldown(S, t) == StartTransport([S EXCEPT !.task[t].retry = TRUE], t)

\* History: complete on provider p is about to return the content of r.
Delivered(S, p, r) ==
  [S EXCEPT !.providers[p].delivered = @ + 1,
            !.providers[p].delivered_tokens = @ + r.tokens]

\* _make_request returned the body of a 200 response.
RequestReturned(S, t, r) ==
  LET p == S.task[t].prov
      S1 == IF S.task[t].retry THEN S
            ELSE [S EXCEPT !.providers[p].tokens = @ + r.tokens,
                           !.providers[p].requests = @ + 1]
  IN
  IF r.shape # "ok" THEN RequestFailed(S1, t, Error("KeyError", 0))
  ELSE AfterComplete(Delivered(Log(S1, t, "success", NoError), p, r), t, r,
                     Strip(r.text))

\* Mutant of OnResponse: tenacity retries an error status as it retries a
\* timeout.
OnResponseRetriesStatus(S, t, r) ==
  IF r.kind = "timeout" \/ r.status \notin {200, 429}
  THEN IF S.task[t].attempt < StopAfterAttempt
       THEN [Log(S, t, "backoff", NoError) EXCEPT !.task[t].pc = "backoff"]
       ELSE RequestFailed(S, t, Error("RetryError", 0))
  ELSE IF r.status = 429
  THEN RequestFailed(S, t, Error("GroqRateLimitError", 429))
  ELSE RequestReturned(S, t, r)

\* The awaited client.post ends with exchange r: the rest of _make_request
\* and tenacity's decision.
OnResponse(S, t, r) ==
  IF r.kind = "timeout"
  THEN IF S.task[t].attempt < StopAfterAttempt
       THEN [Log(S, t, "backoff", NoError) EXCEPT !.task[t].pc = "backoff"]
       ELSE RequestFailed(S, t, Error("RetryError", 0))
  ELSE IF r.status = 429
  THEN RequestFailed(S, t, Error("GroqRateLimitError", 429))
  ELSE IF r.status # 200
  THEN RequestFailed(S, t, Error("GroqAPIError", r.status))
  ELSE RequestReturned(S, t, r)

\* Mutant of AfterBackoff: the attempt is not counted.
AfterBackoffKeepsAttempt(S, t) == MakeRequest(S, t)

\* After tenacity's backoff sleep: the next attempt of the same request.
AfterBackoff(S, t) == MakeRequest([S EXCEPT !.task[t].attempt = @ + 1], t)

\* ------------------------------------------------------------ the facade
\* CodeComplexityAnalyzer._get_provider; the task keeps the provider it got.
GetProvider(S, t) ==
  IF S.fprovider = 0
  THEN [S EXCEPT !.providers = Append(@, NewProvider),
                 !.fprovider = Len(S.providers) + 1,
                 !.task[t].prov = Len(S.providers) + 1,
                 !.task[t].newprov = TRUE]
  ELSE [S EXCEPT !.task[t].prov = S.fprovider]

\* The frame of a new operation op; inside analyze_batch and inside an
\* 'async with' the enclosing bookkeeping stays.
NewCall(f, op) ==
  [IdleFrame EXCEPT !.op = op, !.outer = f.outer, !.scoped = f.scoped,
                    !.items = f.items, !.results = f.results,
                    !.pauses = f.pauses, !.snippets = f.snippets,
                    !.log = f.log]

\* Mutant of IsEmptyCode: only 'not code', whitespace passes.
IsEmptyCodeNoStrip(code) == code = <<>>

\* 'not code or not code.strip()'
IsEmptyCode(code) == code = <<>> \/ Strip(code) = <<>>

\* Mutant of Normalize: the code is used as it was passed.
NormalizeNone(code) == code

\* 'code = code.strip()': the text that is cached and put in the prompt.
Normalize(code) == Strip(code)

\* The body of analyze and of analyze_quick in the frame S.task[t], with
\* options.language_hint = hint, up to the first suspension: both do the
\* same up to the prompt they build.
AnalyzeBody(S, t, code, hint) ==
  LET S0 == [S EXCEPT !.task[t].raw = code] IN
  IF IsEmptyCode(code) THEN Raise(S0, t, Error("ValueError", 0))
  ELSE
    LET norm == Normalize(code)
        S1 == [S0 EXCEPT !.task[t].code = norm,
                         !.task[t].at = now,
                         !.task[t].prior =
                           IF norm \in DOMAIN S.stored
                           THEN S.stored[norm] ELSE NoEntry]
        got == CacheGet(S1.cache, norm, now)
        S2 == [S1 EXCEPT !.cache = got.cache]
        S3 == IF cfg.cache_enabled THEN S2 ELSE S1
        prompt == IF S.task[t].op = "analyze_quick"
                  THEN BuildQuickAnalysisPrompt(norm)
                  ELSE BuildAnalysisPrompt(norm, hint)
    IN
    IF cfg.cache_enabled /\ got.result # NoResult
    THEN ReturnResult([S2 EXCEPT !.task[t].hit = TRUE], t, got.result)
    ELSE BeginComplete(GetProvider([S3 EXCEPT !.task[t].prompt = prompt], t),
                       t, TRUE)

\* analyze(code, options) with options.language_hint = hint (NoHint also for
\* options = None), and analyze_quick(code), in a new frame.
BeginAnalyzeWith(S, t, op, code, hint) ==
  AnalyzeBody([S EXCEPT !.task[t] = [NewCall(@, op) EXCEPT !.given = hint]],
              t, code, hint)

\* analyze(code) and analyze_quick(code).
BeginAnalyze(S, t, op, code) == BeginAnalyzeWith(S, t, op, code, NoHint)

\* analyze_file(file_path, options) up to its first suspension.  passed is
\* "object" when the caller hands in the AnalysisOptions object it keeps and
\* "none" for options = None; a hint derived from the suffix is assigned to
\* the options object that was passed.
BeginAnalyzeFile(S, t, file, passed) ==
  LET hint0 == IF passed = "object" THEN S.options ELSE NoHint
      S0 == [S EXCEPT !.task[t] = [NewCall(@, "analyze_file") EXCEPT
                                     !.given = hint0, !.suffix = file.suffix]]
      hint == IF hint0 = NoHint THEN ExtToLangGet(Lower(file.suffix)) ELSE hint0
      S1 == IF passed = "object" THEN [S0 EXCEPT !.options = hint] ELSE S0
  IN
  IF ~file.exists THEN Raise(S0, t, Error("FileNotFoundError", 0))
  ELSE IF ~file.is_file THEN Raise(S0, t, Error("ValueError", 0))
  ELSE AnalyzeBody(S1, t, file.text, hint)

\* compare up to its first suspension.
BeginCompare(S, t, code1, code2) ==
  BeginComplete(
    GetProvider([S EXCEPT !.task[t] =
                   [NewCall(@, "compare") EXCEPT
                      !.raw = code1, !.raw2 = code2,
                      !.prompt = BuildComparisonPrompt(code1, code2)]], t),
    t, TRUE)

\* analyze_batch: the loop's next iteration, or its return.
BatchStep(S, t) ==
  IF S.task[t].items = <<>>
  THEN Leave([S EXCEPT !.task[t].outer = "none", !.task[t].op = "analyze_batch",
                       !.task[t].outcome = "ok", !.task[t].error = NoError], t)
  ELSE BeginAnalyze(S, t, "analyze", Head(S.task[t].items))

\* analyze_batch up to its first suspension.
BeginBatch(S, t, snippets) ==
  BatchStep([S EXCEPT !.task[t].outer = "batch", !.task[t].items = snippets,
                      !.task[t].snippets = snippets,
                      !.task[t].results = <<>>, !.task[t].pauses = 0], t)

\* After asyncio.sleep(0.5) at the end of an iteration.
AfterPacing(S, t) == BatchStep([S EXCEPT !.task[t].pauses = @ + 1], t)

\* ------------------------------------------------------------ inputs
\* Code strings: empty, whitespace only, and two snippets with and without
\* surrounding whitespace.
Codes == {<<>>, <<" ">>, <<"a">>, <<" ", "a", " ">>, <<"b">>}

Confs == {Conf("num", -2), Conf("num", 5), Conf("num", 15), ConfMissing, ConfNull}

\* Response texts of the facade runs: an object, an object in prose, an
\* object in whitespace, prose alone, a scalar.
Texts ==
  {<<"{", "}">>, <<"x", "{", "}", "x">>, <<" ", "{", "}">>, <<"x">>, <<"1">>}

Alphabet == {"{", "}", "k", "1", " ", "x"}

\* Every text up to MaxTextLen tokens.
AllTexts == UNION {[1..n -> Alphabet] : n \in 0..MaxTextLen}

\* Exchanges that do not yield a completion.
Faults == {Timeout, Http(429), Http(500), Http(503)}

\* 200 responses of the facade runs.
Successes ==
  {Ok(x, c) : x \in Texts, c \in Confs}
    \cup {[Ok(<<"{", "}">>, ConfMissing) EXCEPT !.shape = "nochoices"],
          [Ok(<<"{", "}">>, ConfMissing) EXCEPT !.fields = "bad"]}

IsFault(r) == r.kind = "timeout" \/ r.status # 200

\* ------------------------------------------------------------ actions
Empty == [k \in {} |-> NoEntry]

Ready(t) == task[t].pc \in {"idle", "done"} /\ ncalls < MaxCalls

\* The state with task t in a fresh frame.
Fresh0(t, scoped) == [State EXCEPT !.task[t] = [IdleFrame EXCEPT !.scoped = scoped]]

Started(S) == Install(S) /\ ncalls' = ncalls + 1 /\ UNCHANGED <<now, cfg>>

Stepped(S) == Install(S) /\ UNCHANGED <<now, cfg, ncalls>>

\* await analyzer.analyze(code); scoped: as the body of 'async with analyzer'.
CallAnalyze(t, codes, scopes) ==
  /\ Ready(t)
  /\ \E code \in codes, scoped \in scopes :
       Started(BeginAnalyze(Fresh0(t, scoped), t, "analyze", code))

\* await analyzer.analyze(code, options) with the options object the caller
\* keeps.
CallAnalyzeWith(t, codes) ==
  /\ Ready(t)
  /\ \E code \in codes :
       Started(BeginAnalyzeWith(Fresh0(t, FALSE), t, "analyze", code, options))

\* await analyzer.analyze_file(path, options)
CallAnalyzeFile(t, files) ==
  /\ Ready(t)
  /\ \E file \in files, passed \in {"none", "object"} :
       Started(BeginAnalyzeFile(Fresh0(t, FALSE), t, file, passed))

\* The caller sets language_hint of the options object it keeps.
SetHint(hints) ==
  /\ \E h \in hints : h # options /\ options' = h
  /\ UNCHANGED <<task, providers, fprovider, cache, now, cfg, ncalls, serial,
                 stored>>

\* await analyzer.analyze_quick(code)
CallAnalyzeQuick(t, codes, scopes) ==
  /\ Ready(t)
  /\ \E code \in codes, scoped \in scopes :
       Started(BeginAnalyze(Fresh0(t, scoped), t, "analyze_quick", code))

\* await analyzer.compare(code1, code2)
CallCompare(t, codes, scopes) ==
  /\ Ready(t)
  /\ \E code1 \in codes, code2 \in codes, scoped \in scopes :
       Started(BeginCompare(Fresh0(t, scoped), t, code1, code2))

\* await analyzer.analyze_batch(snippets)
CallBatch(t, codes, scopes) ==
  /\ Ready(t)
  /\ \E snippets \in UNION {[1..n -> codes] : n \in 0..MaxBatch},
        scoped \in scopes :
       Started(BeginBatch(Fresh0(t, scoped), t, snippets))

\* await analyzer.close()
CallClose(t) ==
  /\ Ready(t)
  /\ Started(CloseFacade([State EXCEPT !.task[t] =
                            [IdleFrame EXCEPT !.op = "close", !.outcome = "ok",
                                              !.repeat = (task[t].op = "close")]],
                         t))

\* await provider.close() on a provider used directly.
CallProviderClose(t) ==
  /\ Ready(t)
  /\ Started(ProviderClose(
               [State EXCEPT !.task[t] =
                  [IdleFrame EXCEPT !.op = "provider_close", !.outcome = "ok",
                                    !.prov = 1,
                                    !.repeat = (task[t].op = "provider_close")]],
               t, 1))

\* await provider.complete(prompt, use_fallback=...) on a provider used directly.
CallComplete(t) ==
  /\ Ready(t)
  /\ \E use_fallback \in BOOLEAN :
       Started(BeginComplete([State EXCEPT !.task[t] =
                                [IdleFrame EXCEPT !.op = "complete", !.prov = 1]],
                             t, use_fallback))

\* await provider.complete_json(prompt) on a provider used directly.
CallCompleteJson(t) ==
  /\ Ready(t)
  /\ Started(BeginComplete([State EXCEPT !.task[t] =
                              [IdleFrame EXCEPT !.op = "complete_json", !.prov = 1]],
                           t, TRUE))

\* History: exchange r has ended the pending client.post of task t.
Received(S, t, r) ==
  LET what == Error(IF r.kind = "timeout" THEN "timeout" ELSE r.shape, r.status)
  IN [Log(S, t, "recv", what) EXCEPT
        !.task[t].faults = IF IsFault(r) THEN @ + 1 ELSE @,
        !.task[t].rawtext = IF IsFault(r) THEN @ ELSE r.text,
        !.task[t].resp = IF IsFault(r) THEN @ ELSE r]

\* The remote (or the network) ends the pending client.post with one of R.
Respond(t, R) ==
  /\ task[t].pc = "post"
  /\ \E r \in R :
       /\ IsFault(r) => task[t].faults < cfg.fault_cap
       /\ Stepped(OnResponse(Received(State, t, r), t, r))

\* tenacity's sleep ends.
WakeBackoff(t) == task[t].pc = "backoff" /\ Stepped(AfterBackoff(State, t))

\* asyncio.sleep(2) ends.
WakeCooldown(t) == task[t].pc = "cooldown" /\ Stepped(AfterCooldown(State, t))

\* client.aclose() returns.
WakeClose(t) == task[t].pc = "aclose" /\ Stepped(CloseResume(State, t))

\* client.aclose() returns to GroqProvider.close called directly.
WakeProviderClose(t) ==
  task[t].pc = "paclose" /\ Stepped(ProviderCloseResume(State, t))

\* The task is cancelled (or interrupted) while it is suspended in
\* client.post or in one of the sleeps of its completion request.
Cancel(t) ==
  /\ task[t].pc \in {"post", "backoff", "cooldown"}
  /\ Stepped(Cancelled(State, t))

\* await analyzer.analyze(code) / analyze_quick(code), with the cache as the
\* call finds it recorded in the frame.
CallAnalyzeRecorded(t, codes) ==
  /\ Ready(t)
  /\ \E code \in codes, op \in {"analyze", "analyze_quick"} :
       Started([BeginAnalyze(Fresh0(t, FALSE), t, op, code)
                  EXCEPT !.task[t].cache0 = cache])

\* asyncio.sleep(0.5) ends.
WakePacing(t) == task[t].pc = "pacing" /\ Stepped(AfterPacing(State, t))

\* Time passes.
Tick ==
  /\ now < MaxTime
  /\ now' = now + 1
  /\ UNCHANGED <<task, providers, fprovider, cache, cfg, ncalls, serial, stored,
                 options>>

\* AnalysisCache.clear() on the facade's cache.
ClearCache ==
  /\ cfg.cache_enabled
  /\ cache # Empty
  /\ cache' = CacheClear(cache)
  /\ stored' = Empty
  /\ UNCHANGED <<task, providers, fprovider, now, cfg, ncalls, serial, options>>

\* ------------------------------------------------------------ specifications
\* A facade just constructed, with the given settings.
InitFacade(caching, fallbacks, cap) ==
  /\ task = [t \in Tasks |-> IdleFrame]
  /\ providers = <<>>
  /\ fprovider = 0
  /\ cache = Empty
  /\ now = 0
  /\ cfg \in [cache_enabled : caching, model : {"primary"},
              fallback_model : fallbacks, fault_cap : {cap},
              max_retries : {DefaultMaxRetries}]
  /\ ncalls = 0
  /\ serial = 0
  /\ stored = Empty
  /\ options = NoHint

\* The two snippets, with and without surrounding whitespace.
Snippets == {<<"a">>, <<" ", "a", " ">>, <<"b">>}

\* The remote of the cache runs: a rate limit, an error, an answer, an
\* unusable answer.
CacheRemote ==
  {Http(429), Http(500), Ok(<<"{", "}">>, ConfMissing), Ok(<<"x">>, ConfMissing)}

\* The facade used by one flow of control (task 1): analyses, the clock and
\* the cache.
Init == InitFacade(BOOLEAN, {"fallback"}, MaxFaults)

Next ==
  \/ CallAnalyze(1, Codes, {FALSE})
  \/ CallAnalyzeQuick(1, Codes, {FALSE})
  \/ CallClose(1)
  \/ Respond(1, CacheRemote)
  \/ WakeCooldown(1)
  \/ WakeClose(1)
  \/ Tick
  \/ ClearCache

Spec == Init /\ [][Next]_vars

\* A provider constructed directly and used by one flow of control: complete
\* and complete_json against a remote that may fail every attempt.
InitProvider ==
  /\ task = [t \in Tasks |-> IdleFrame]
  /\ providers = <<NewProvider>>
  /\ fprovider = 0
  /\ cache = Empty
  /\ now = 0
  /\ cfg \in [cache_enabled : {FALSE}, model : {"primary"},
              fallback_model : {"primary", "fallback"},
              fault_cap : {MaxFaultsProvider},
              max_retries : {DefaultMaxRetries}]
  /\ ncalls = 0
  /\ serial = 0
  /\ stored = Empty
  /\ options = NoHint

\* The remote of the provider runs: every fault, an answer in whitespace, an
\* answer without whitespace, a 200 body without choices.
ProviderRemote ==
  Faults \cup {Ok(<<" ", "x", " ">>, ConfMissing), Ok(<<"{", "}">>, ConfMissing),
               [Ok(<<"x">>, ConfMissing) EXCEPT !.shape = "nochoices"]}

NextProvider ==
  \/ CallComplete(1)
  \/ CallCompleteJson(1)
  \/ Respond(1, ProviderRemote)
  \/ WakeBackoff(1)
  \/ WakeCooldown(1)

SpecProvider == InitProvider /\ [][NextProvider]_vars

\* analyze_batch on a facade, with a remote that answers or errs.
BatchRemote == {Http(500), Ok(<<"{", "}">>, ConfMissing)}

InitBatch == InitFacade(BOOLEAN, {"fallback"}, MaxFaults)

NextBatch ==
  \/ CallBatch(1, {<<>>, <<"a">>}, {FALSE})
  \/ Respond(1, BatchRemote)
  \/ WakePacing(1)

SpecBatch == InitBatch /\ [][NextBatch]_vars

\* complete_json against a remote that answers 200 with any text up to
\* MaxTextLen tokens, or with prose longer than the preview.
LongProse == [i \in 1..(PreviewLen + 1) |-> "x"]

JsonRemote == {Ok(x, ConfMissing) : x \in AllTexts \cup {LongProse}}

NextJson ==
  \/ CallCompleteJson(1)
  \/ Respond(1, JsonRemote)

SpecJson == InitProvider /\ [][NextJson]_vars

\* analyze and analyze_quick against a remote that always answers 200, with
\* every modelled text and confidence_score.
InitParse == InitFacade(BOOLEAN, {"fallback"}, MaxFaults)

NextParse ==
  \/ CallAnalyze(1, Snippets, {FALSE})
  \/ CallAnalyzeQuick(1, Snippets, {FALSE})
  \/ Respond(1, Successes)

SpecParse == InitParse /\ [][NextParse]_vars

\* Every call is the body of an 'async with' on the facade.
InitScope == InitFacade(BOOLEAN, {"primary", "fallback"}, MaxFaults)

NextScope ==
  \/ CallAnalyze(1, Codes, {TRUE})
  \/ CallAnalyzeQuick(1, Codes, {TRUE})
  \/ CallCompare(1, {<<>>, <<"a">>}, {TRUE})
  \/ Respond(1, Faults \cup CacheRemote)
  \/ WakeBackoff(1)
  \/ WakeCooldown(1)
  \/ WakeClose(1)

SpecScope == InitScope /\ [][NextScope]_vars

\* A facade and a provider constructed directly (provider 1), each used and
\* closed any number of times by one flow of control.
InitClose ==
  /\ InitProvider
  /\ cfg.fallback_model = "primary"

CloseRemote == {Http(500), Ok(<<"{", "}">>, ConfMissing)}

NextClose ==
  \/ CallAnalyze(1, {<<"a">>}, {FALSE})
  \/ CallClose(1)
  \/ CallComplete(1)
  \/ CallProviderClose(1)
  \/ Respond(1, CloseRemote)
  \/ WakeClose(1)
  \/ WakeProviderClose(1)

SpecClose == InitClose /\ [][NextClose]_vars

\* Files handed to analyze_file: regular files with the suffixes .rs, .RS,
\* .x and none, one of them with whitespace around its text, a missing
\* path and a directory.
Suffixes ==
  {<<".", "r", "s">>, <<".", "R", "S">>, <<".", "x">>, <<>>}

Files ==
  {[exists |-> TRUE, is_file |-> TRUE, suffix |-> x, text |-> <<"a">>] :
     x \in Suffixes}
    \cup {[exists |-> TRUE, is_file |-> TRUE, suffix |-> <<".", "r", "s">>,
           text |-> <<" ", "a", " ">>],
          [exists |-> FALSE, is_file |-> FALSE, suffix |-> <<".", "r", "s">>,
           text |-> <<>>],
          [exists |-> TRUE, is_file |-> FALSE, suffix |-> <<>>, text |-> <<>>]}

\* Values the caller gives language_hint.
Hints == {NoHint, "Go"}

FileRemote == {Http(500), Ok(<<"{", "}">>, ConfMissing)}

\* analyze, analyze_quick and analyze_file with and without options, the
\* clock and the cache.
InitFile == InitFacade(BOOLEAN, {"primary"}, MaxFaults)

NextFile ==
  \/ CallAnalyzeWith(1, {<<"a">>, <<" ", "a", " ">>})
  \/ CallAnalyzeQuick(1, {<<"a", " ">>}, {FALSE})
  \/ CallAnalyzeFile(1, Files)
  \/ SetHint(Hints)
  \/ Respond(1, FileRemote)
  \/ Tick
  \/ ClearCache

SpecFile == InitFile /\ [][NextFile]_vars

\* A provider constructed with every max_retries up to MaxRetries, against a
\* network that may time out on every attempt.
InitRetry ==
  /\ task = [t \in Tasks |-> IdleFrame]
  /\ providers = <<NewProvider>>
  /\ fprovider = 0
  /\ cache = Empty
  /\ now = 0
  /\ cfg \in [cache_enabled : {FALSE}, model : {"primary"},
              fallback_model : {"primary", "fallback"},
              fault_cap : {MaxFaultsProvider},
              max_retries : 1..MaxRetries]
  /\ ncalls = 0
  /\ serial = 0
  /\ stored = Empty
  /\ options = NoHint

RetryRemote == {Timeout, Ok(<<"x">>, ConfMissing)}

NextRetry ==
  \/ CallComplete(1)
  \/ Respond(1, RetryRemote)
  \/ WakeBackoff(1)

SpecRetry == InitRetry /\ [][NextRetry]_vars

\* analyze and analyze_quick on a caching facade, with a remote that fails,
\* answers unusably or answers, a clock, and cancellation at every suspension
\* point.
CancelRemote ==
  {Timeout, Http(429), Ok(<<"{", "}">>, ConfMissing), Ok(<<"x">>, ConfMissing),
   Ok(<<"{", "}">>, ConfNull)}

InitCancel == InitFacade({TRUE}, {"primary"}, MaxFaults)

NextCancel ==
  \/ CallAnalyzeRecorded(1, {<<"a">>, <<"b">>})
  \/ Respond(1, CancelRemote)
  \/ WakeBackoff(1)
  \/ WakeCooldown(1)
  \/ Cancel(1)
  \/ Tick

SpecCancel == InitCancel /\ [][NextCancel]_vars

\* Two tasks on one caching facade: each analyses the same code, task 2 also
\* closes the facade, and the event loop runs whichever of them can go on.
\* A request that is pending while the other task closes the client ends
\* with one of the remote's outcomes.
SharedRemote == {Timeout, Http(500), Ok(<<"{", "}">>, ConfMissing)}

InitShared == InitFacade({TRUE}, {"primary"}, MaxFaults)

NextShared ==
  \/ CallAnalyze(1, {<<"a">>}, {FALSE})
  \/ CallAnalyze(2, {<<"a">>}, {FALSE})
  \/ CallClose(2)
  \/ Respond(1, SharedRemote)
  \/ Respond(2, SharedRemote)
  \/ WakeBackoff(1)
  \/ WakeBackoff(2)
  \/ WakeClose(2)

SpecShared == InitShared /\ [][NextShared]_vars

\* complete on a provider used directly, against a remote that may answer
\* every attempt with a timeout, 429 or an error status.  Every client.post
\* ends (the request carries a deadline) and every sleep ends.
LiveRemote == {Timeout, Http(429), Http(500), Ok(<<"x">>, ConfMissing)}

InitLive == InitProvider

NextLive ==
  \/ CallComplete(1)
  \/ Respond(1, LiveRemote)
  \/ WakeBackoff(1)
  \/ WakeCooldown(1)

SpecLive ==
  /\ InitLive
  /\ [][NextLive]_vars
  /\ WF_vars(Respond(1, LiveRemote))
  /\ WF_vars(WakeBackoff(1))
  /\ WF_vars(WakeCooldown(1))

\* Entries of a functions list: two objects that name their function, an
\* object without a name, an object whose name is null and a string.
FunctionEntries ==
  {[kind |-> "dict", name |-> "f"], [kind |-> "dict", name |-> "g"],
   [kind |-> "dict", name |-> "missing"], [kind |-> "dict", name |-> "null"],
   [kind |-> "str", name |-> "missing"]}

\* A JSON object with the functions value fs.
OkFunctions(fs) == [Ok(<<"{", "}">>, ConfMissing) EXCEPT !.functions = fs]

\* Responses with every functions list up to MaxFunctions entries, with
\* functions null and without functions.
FunctionsRemote ==
  {OkFunctions(Funcs("list", v)) :
     v \in UNION {[1..n -> FunctionEntries] : n \in 0..MaxFunctions}}
    \cup {OkFunctions(Funcs("null", <<>>)), OkFunctions(NoFunctions)}

\* analyze and analyze_quick answered with JSON objects that carry functions
\* lists.
InitFunctions == InitFacade({FALSE}, {"primary"}, MaxFaults)

NextFunctions ==
  \/ CallAnalyze(1, {<<"a">>}, {FALSE})
  \/ CallAnalyzeQuick(1, {<<"b">>}, {FALSE})
  \/ Respond(1, FunctionsRemote)

SpecFunctions == InitFunctions /\ [][NextFunctions]_vars

\* ------------------------------------------------------------ claims
Done(t) == task[t].pc = "done"

\* C1: with caching enabled, an analyze of a code for which an earlier
\* analysis stored a result that has not expired and was not cleared returns
\* that stored result, calls complete zero times (so the two calls together
\* made one completion request), issues no HTTP request and neither creates
\* nor obtains the provider.
C1_CacheIdempotence ==
  \A t \in Tasks :
    LET f == task[t] IN
    (/\ Done(t)
     /\ f.op = "analyze"
     /\ cfg.cache_enabled
     /\ f.prior # NoEntry
     /\ f.at - f.prior.timestamp < TTL)
    => /\ f.outcome = "ok"
       /\ f.result = f.prior.result
       /\ f.ncomplete = 0
       /\ f.trace = <<>>
       /\ ~f.newprov
       /\ f.prov = 0

\* C1 witness: a second analyze of the same code, one tick after the first
\* stored its result, has returned from the cache.
C1_Witness ==
  /\ Done(1)
  /\ task[1].op = "analyze"
  /\ task[1].hit
  /\ task[1].prior # NoEntry
  /\ task[1].at > task[1].prior.timestamp
  /\ task[1].result = task[1].prior.result

\* A code that is empty or holds nothing but whitespace.
Blank(code) == \A i \in DOMAIN code : code[i] = " "

\* C2: a step that ends analyze or analyze_quick of an empty or
\* whitespace-only code ends it with ValueError, with no HTTP request, no
\* provider created or obtained, and the cache as it was.
C2_EmptyCodeRejected ==
  [][\A t \in Tasks :
       (/\ task'[t] # task[t]
        /\ task'[t].pc = "done"
        /\ task'[t].op \in {"analyze", "analyze_quick"}
        /\ Blank(task'[t].raw))
       => /\ task'[t].outcome = "error"
          /\ task'[t].error.type = "ValueError"
          /\ task'[t].trace = <<>>
          /\ task'[t].ncomplete = 0
          /\ task'[t].prov = 0
          /\ providers' = providers
          /\ fprovider' = fprovider
          /\ cache' = cache]_vars

\* C2 witness: a whitespace-only code was rejected while the cache held an
\* entry.
C2_Witness ==
  /\ Done(1)
  /\ task[1].op \in {"analyze", "analyze_quick"}
  /\ task[1].raw = <<" ">>
  /\ task[1].error.type = "ValueError"
  /\ cache # Empty

\* Positions of the events e of model m in a trace.
At(trace, e, m) == {i \in DOMAIN trace : trace[i].e = e /\ trace[i].m = m}

\* Positions where the remote answered model m with an HTTP status in sts.
Answered(trace, m, sts) ==
  {i \in At(trace, "recv", m) : trace[i].type # "timeout" /\ trace[i].status \in sts}

\* Positions where the remote answered model m with a usable completion.
Completed(trace, m) ==
  {i \in Answered(trace, m, {200}) : trace[i].type = "ok"}

\* text is raw without its leading and trailing whitespace.
Trimmed(raw, text) ==
  /\ text = <<>> \/ (text[1] # " " /\ text[Len(text)] # " ")
  /\ \E a \in 0..Len(raw), b \in 0..Len(raw) :
       /\ a + Len(text) + b = Len(raw)
       /\ \A i \in 1..Len(raw) :
            IF i <= a \/ i > a + Len(text) THEN raw[i] = " "
            ELSE raw[i] = text[i - a]

\* C3: when the remote answers the primary with an error status other than
\* 429 (and never with 429) and answers the distinct fallback's request with
\* a completion (and with no error status),
\* complete returns that completion's content trimmed, after exactly one
\* transport request to the primary and exactly one to the fallback.
C3_FallbackOnce ==
  \A t \in Tasks :
    LET f == task[t] IN
    (/\ Done(t)
     /\ f.op = "complete"
     /\ Answered(f.trace, "primary", {500, 503}) # {}
     /\ Answered(f.trace, "primary", {429}) = {}
     /\ Completed(f.trace, "fallback") # {}
     /\ Answered(f.trace, "fallback", {429, 500, 503}) = {})
    => /\ f.outcome = "ok"
       /\ f.value.kind = "text"
       /\ Trimmed(f.rawtext, f.value.text)
       /\ Cardinality(At(f.trace, "request", "primary")) = 1
       /\ Cardinality(At(f.trace, "request", "fallback")) = 1

\* C3 witness: the primary answered 500, the fallback answered with content
\* in whitespace, and complete has returned.
C3_Witness ==
  /\ Done(1)
  /\ task[1].op = "complete"
  /\ Answered(task[1].trace, "primary", {500}) # {}
  /\ Completed(task[1].trace, "fallback") # {}
  /\ task[1].rawtext = <<" ", "x", " ">>
  /\ task[1].value.text = <<"x">>

\* The events that C4 orders: transport requests, cooldown waits and 429
\* answers.
IsKeyEvent(ev) ==
  ev.e \in {"request", "sleep"} \/ (ev.e = "recv" /\ ev.type # "timeout" /\ ev.status = 429)

KeyEvents(trace) == SelectSeq(trace, IsKeyEvent)

\* C4: a 429 answer to the first request to a model is followed by one wait
\* of the fixed cooldown and then by a second request to that same model,
\* before any request to another model; a 429 answer to that second request
\* is followed by no further wait and no further request to the model.  Per
\* model there is at most one wait and there are at most two requests, and
\* when the re-request is answered with a completion complete returns its
\* content.
C4_RateLimitRetry ==
  \A t \in Tasks :
    LET f == task[t]
        k == KeyEvents(f.trace)
        Before(i, e, m) == {j \in 1..(i - 1) : k[j].e = e /\ k[j].m = m}
        After(i, e, m) == {j \in (i + 1)..Len(k) : k[j].e = e /\ k[j].m = m}
    IN
    /\ \A i \in DOMAIN k :
         k[i].e = "recv" =>
           IF Cardinality(Before(i, "request", k[i].m)) = 1
           THEN /\ i + 1 <= Len(k)
                /\ k[i + 1].e = "sleep"
                /\ k[i + 1].m = k[i].m
                /\ k[i + 1].status = Cooldown
                /\ IF i + 2 <= Len(k)
                   THEN k[i + 2].e = "request" /\ k[i + 2].m = k[i].m
                   ELSE f.pc = "cooldown"
           ELSE /\ Cardinality(Before(i, "request", k[i].m)) = 2
                /\ After(i, "sleep", k[i].m) = {}
                /\ After(i, "request", k[i].m) = {}
                /\ IF i + 1 <= Len(k)
                   THEN k[i + 1].e = "request" /\ k[i + 1].m # k[i].m
                   ELSE f.pc # "cooldown"
    /\ \A m \in {"primary", "fallback"} :
         /\ Cardinality(At(f.trace, "sleep", m)) <= 1
         /\ Cardinality(At(f.trace, "request", m)) <= 2
         /\ (Done(t) /\ f.op = "complete"
               /\ At(f.trace, "sleep", m) # {} /\ Completed(f.trace, m) # {})
            => /\ f.outcome = "ok"
               /\ Trimmed(f.rawtext, f.value.text)

\* C4 witness: the primary answered 429 twice (with the wait between) and the
\* fallback was then requested.
C4_Witness ==
  /\ Cardinality(Answered(task[1].trace, "primary", {429})) = 2
  /\ At(task[1].trace, "sleep", "primary") # {}
  /\ At(task[1].trace, "request", "fallback") # {}

\* The error complete records for an exchange that fails a request.
Recorded(ev) ==
  IF ev.type = "timeout" THEN Error("RetryError", 0)
  ELSE IF ev.status = 429 THEN Error("GroqRateLimitError", 429)
  ELSE IF ev.status # 200 THEN Error("GroqAPIError", ev.status)
  ELSE Error("KeyError", 0)

\* C7: complete fails exactly when every model of its candidate list was
\* requested and none answered with a usable completion, and the error it
\* raises is a GroqAPIError wrapping the error of the last exchange, which is
\* an exchange with the last candidate of the list.
C7_ExhaustedWrapsLast ==
  \A t \in Tasks :
    LET f == task[t]
        recvs == {i \in DOMAIN f.trace : f.trace[i].e = "recv"}
        last == CHOOSE i \in recvs : \A j \in recvs : j <= i
    IN
    (Done(t) /\ f.op = "complete")
    => /\ f.outcome = "error"
          <=> /\ \A i \in DOMAIN f.models : At(f.trace, "request", f.models[i]) # {}
              /\ \A i \in DOMAIN f.models : Completed(f.trace, f.models[i]) = {}
       /\ f.outcome = "error"
          => /\ f.trace[last].m = f.models[Len(f.models)]
             /\ f.error = Wrapping("GroqAPIError", Recorded(f.trace[last]))

\* C7 witness: the primary answered 500, the fallback 503, and complete
\* raised the error that wraps the 503.
C7_Witness ==
  /\ Done(1)
  /\ task[1].op = "complete"
  /\ task[1].outcome = "error"
  /\ Answered(task[1].trace, "primary", {500}) # {}
  /\ Answered(task[1].trace, "fallback", {503}) # {}
  /\ task[1].error.wstatus = 503

\* C5: analyze_batch returns one entry per snippet, in order: entry i is the
\* result of the analyze of snippet i when that succeeded and otherwise an
\* AnalysisError with recoverable = true naming its exception; the entry of
\* an empty snippet is the ValueError's.  Throughout the batch the resolved
\* items are a prefix of the snippets, the unresolved ones are the remaining
\* suffix, and the only analyze in flight is that of the first unresolved
\* snippet.
C5_BatchOrdered ==
  \A t \in Tasks :
    LET f == task[t]
        n == Len(f.snippets)
        Entry(i) == f.results[i]
        InBatch == f.outer = "batch" \/ f.op = "analyze_batch"
    IN
    /\ InBatch =>
         /\ Len(f.results) <= n
         /\ Len(f.log) = Len(f.results)
         /\ \A i \in 1..Len(f.results) :
              /\ f.log[i].raw = f.snippets[i]
              /\ IF f.log[i].outcome = "ok"
                 THEN Entry(i).kind = "result" /\ Entry(i).result = f.log[i].result
                 ELSE /\ Entry(i).kind = "AnalysisError"
                      /\ Entry(i).recoverable
                      /\ Entry(i).error_type = f.log[i].error.type
              /\ Blank(f.snippets[i]) => Entry(i).error_type = "ValueError"
    /\ f.outer = "batch" =>
         /\ f.items = SubSeq(f.snippets, Len(f.results) + 1, n)
         /\ f.pc \in {"post", "cooldown", "backoff"} =>
              f.raw = f.snippets[Len(f.results) + 1]
    /\ (Done(t) /\ f.op = "analyze_batch") =>
         /\ f.outcome = "ok"
         /\ Len(f.results) = n

\* C5 witness: a batch of three whose second snippet failed has returned
\* result, error, result.
C5_Witness ==
  /\ Done(1)
  /\ task[1].op = "analyze_batch"
  /\ Len(task[1].results) = 3
  /\ task[1].results[1].kind = "result"
  /\ task[1].results[2].kind = "AnalysisError"
  /\ task[1].results[2].error_type = "GroqAPIError"
  /\ task[1].results[3].kind = "result"

\* The step starts analyze or analyze_quick of task t on a non-empty code
\* with cache key `key`, so it looks the key up.
LooksUp(t, key) ==
  /\ ncalls' = ncalls + 1
  /\ task'[t] # task[t]
  /\ task'[t].op \in {"analyze", "analyze_quick"}
  /\ ~Blank(task'[t].raw)
  /\ HashCode(task'[t].code) = key

\* The step is AnalysisCache.clear(): it empties the cache, whatever the age
\* of the entries, and belongs to no call.
IsClear == cache' = Empty /\ task' = task

\* C6: with caching enabled, an analyze or analyze_quick that finds for its
\* code an entry older than the TTL removes the entry and issues a completion
\* request; when that call returns a result, the cache holds it for the code
\* with the time of the return.  Apart from clear(), a step removes an entry
\* only if it is a lookup of the entry's own key that finds it no longer
\* honoured.
C6_ExpiryOnLookup ==
  [][\A t \in Tasks :
       /\ \A key \in DOMAIN cache :
            (cfg.cache_enabled /\ LooksUp(t, key) /\ now - cache[key].timestamp > TTL)
            => /\ key \notin DOMAIN cache'
               /\ ~task'[t].hit
               /\ task'[t].ncomplete = 1
               /\ task'[t].pc = "post"
       /\ (/\ cfg.cache_enabled
           /\ task[t].pc = "post"
           /\ task'[t].pc = "done"
           /\ task'[t].op \in {"analyze", "analyze_quick"}
           /\ task'[t].outcome = "ok")
          => /\ HashCode(task'[t].code) \in DOMAIN cache'
             /\ cache'[HashCode(task'[t].code)] =
                  [result |-> task'[t].result, timestamp |-> now]
       /\ \A key \in DOMAIN cache \ DOMAIN cache' :
            \/ IsClear
            \/ \E u \in Tasks : LooksUp(u, key) /\ ~(now - cache[key].timestamp < TTL)]_vars

\* C6 witness: an analyze found the entry stored for its code older than the
\* TTL, requested a new completion and now holds the fresh result, which is
\* the cache's entry.
C6_Witness ==
  /\ Done(1)
  /\ task[1].op = "analyze"
  /\ task[1].prior # NoEntry
  /\ task[1].at - task[1].prior.timestamp > TTL
  /\ task[1].outcome = "ok"
  /\ ~task[1].hit
  /\ HashCode(task[1].code) \in DOMAIN cache
  /\ cache[HashCode(task[1].code)].result = task[1].result
  /\ task[1].result # task[1].prior.result

NotSpace(x) == x # " "

\* The tokens of a text without its whitespace.
Compact(s) == SelectSeq(s, NotSpace)

RECURSIVE JsonValues(_)
\* The JSON values of the token grammar nested at most d deep, without
\* whitespace.
JsonValues(d) ==
  IF d = 0 THEN {<<"1">>, <<"{", "}">>}
  ELSE JsonValues(d - 1)
         \cup {<<"{", "k">> \o v \o <<"}">> : v \in JsonValues(d - 1)}

\* s is a JSON document: whitespace between tokens does not matter.
IsJson(s) == Compact(s) \in JsonValues(MaxTextLen)

\* The pairs <<a, b>> such that s[a] is the first "{" of s and s[b] its last
\* "}", with the brace after the first "{".
BraceSpan(s) ==
  {ab \in (1..Len(s)) \X (1..Len(s)) :
     /\ ab[1] < ab[2]
     /\ s[ab[1]] = "{" /\ \A i \in 1..(ab[1] - 1) : s[i] # "{"
     /\ s[ab[2]] = "}" /\ \A i \in (ab[2] + 1)..Len(s) : s[i] # "}"}

C8_WitnessPreview ==
  /\ Done(1)
  /\ task[1].op = "complete_json"
  /\ Len(task[1].text) > PreviewLen
  /\ task[1].outcome = "error"
  /\ Len(task[1].value.text) = PreviewLen

\* C9: every result analyze or analyze_quick returns, and every cached
\* result, has confidence_score in [0, 1]: a value above 1 becomes 1.0, one
\* below 0 becomes 0.0, one in range is kept, a missing one becomes 0.8; and
\* no confidence_score makes the analysis fail, so an analysis whose response
\* parsed to an object with acceptable fields returns a result.
C9_ConfidenceClamped ==
  /\ \A key \in DOMAIN cache :
       cache[key].result.conf \in ConfidenceMin..ConfidenceMax
  /\ \A t \in Tasks :
       LET f == task[t]
           c == f.resp.conf
       IN
       (Done(t) /\ f.op \in {"analyze", "analyze_quick"}) =>
         /\ f.outcome = "ok" => f.result.conf \in ConfidenceMin..ConfidenceMax
         /\ (f.outcome = "ok" /\ ~f.hit) =>
              /\ c.k = "missing" => f.result.conf = DefaultConfidence
              /\ (c.k = "num" /\ c.v > ConfidenceMax) => f.result.conf = ConfidenceMax
              /\ (c.k = "num" /\ c.v < ConfidenceMin) => f.result.conf = ConfidenceMin
              /\ (c.k = "num" /\ c.v \in ConfidenceMin..ConfidenceMax)
                   => f.result.conf = c.v
         /\ (~f.hit /\ f.value.kind = "dict" /\ f.resp.fields = "ok")
              => f.outcome = "ok"

\* C10: when a call made as the body of 'async with' on the facade has ended,
\* with a result or with an error, the facade holds no provider and no
\* provider's HTTP client is open.
C10_ScopeCloses ==
  \A t \in Tasks :
    (Done(t) /\ task[t].scoped)
    => /\ fprovider = 0
       /\ \A p \in DOMAIN providers : providers[p].client # "open"

\* C10 witness: the body raised an API error after its provider had opened a
\* client, and the scope has been left with that client closed.
C10_Witness ==
  /\ Done(1)
  /\ task[1].scoped
  /\ task[1].outcome = "error"
  /\ task[1].error.type = "GroqAPIError"
  /\ task[1].prov # 0
  /\ providers[task[1].prov].client = "closed"
  /\ fprovider = 0

\* C11: close() of the facade and close() of the provider never raise and
\* end with no client of theirs open (and the facade holding no provider),
\* whether nothing was ever opened, a client is open, or it is closed already;
\* a close that directly follows a completed close of the same object ends at
\* once and changes neither the providers, nor the facade's provider, nor
\* the cache.
C11_CloseIdempotent ==
  /\ [](\A t \in Tasks :
          /\ task[t].op \in {"close", "provider_close"} =>
               /\ task[t].outcome = "ok"
               /\ task[t].pc \in {"done", "aclose", "paclose"}
          /\ (Done(t) /\ task[t].op = "close") =>
               /\ fprovider = 0
               /\ \A p \in 2..Len(providers) : providers[p].client # "open"
          /\ (Done(t) /\ task[t].op = "provider_close") =>
               providers[1].client # "open")
  /\ [][\A t \in Tasks :
         (/\ Done(t)
          /\ ncalls' = ncalls + 1
          /\ task[t].op \in {"close", "provider_close"}
          /\ task'[t].op = task[t].op)
         => /\ task'[t].pc = "done"
            /\ task'[t].outcome = "ok"
            /\ providers' = providers
            /\ fprovider' = fprovider
            /\ cache' = cache]_vars

\* C11 witness: the facade was closed again after a close that had closed
\* its provider's open client.
C11_Witness ==
  /\ Done(1)
  /\ task[1].op = "close"
  /\ task[1].repeat
  /\ Len(providers) = 2
  /\ providers[2].client = "closed"

\* C11 witness for the provider: it was closed again after a close that had
\* closed its open client.
C11_WitnessProvider ==
  /\ Done(1)
  /\ task[1].op = "provider_close"
  /\ task[1].repeat
  /\ providers[1].client = "closed"

\* C11 witness for a facade never used: close on it has returned.
C11_WitnessUnused ==
  /\ Done(1)
  /\ task[1].op = "close"
  /\ ~task[1].repeat
  /\ Len(providers) = 1

\* C12: with caching enabled, when an analyze or analyze_quick is called with
\* a code whose trimmed text is c, and an earlier analysis stored a result
\* for c that is younger than the TTL and was not cleared, the call returns
\* that stored result at once with no completion request and no HTTP
\* request, whatever language hint its options carry and whichever operation
\* stored the result.
C12_KeyIsTrimmedCode ==
  [][\A t \in Tasks : \A c \in DOMAIN stored :
       (/\ cfg.cache_enabled
        /\ ncalls' = ncalls + 1
        /\ task'[t].op \in {"analyze", "analyze_quick"}
        /\ Trimmed(task'[t].raw, c)
        /\ now - stored[c].timestamp < TTL)
       => /\ task'[t].pc = "done"
          /\ task'[t].outcome = "ok"
          /\ task'[t].result = stored[c].result
          /\ task'[t].ncomplete = 0
          /\ task'[t].trace = <<>>]_vars

\* C12 witness: an analyze whose options carry a hint, on a code with
\* surrounding whitespace, has returned the result stored earlier for the
\* trimmed code.
C12_Witness ==
  /\ Done(1)
  /\ task[1].op = "analyze"
  /\ task[1].given = "Go"
  /\ task[1].raw = <<" ", "a", " ">>
  /\ task[1].hit
  /\ task[1].prior # NoEntry
  /\ task[1].result = task[1].prior.result
  /\ task[1].ncomplete = 0

\* Two suffixes that differ at most in the case of their letters.
SameIgnoringCase(a, b) ==
  /\ Len(a) = Len(b)
  /\ \A i \in DOMAIN a :
       \/ a[i] = b[i]
       \/ \E j \in DOMAIN Uppercase :
            {a[i], b[i]} = {Uppercase[j], Lowercase[j]}

\* The language sentence of the analysis prompt.
Sentence(language) == <<"The code is written in ", language, ".">>

\* C13: the prompt an analyze_file hands to the completion client is the
\* analysis prompt; when the options the caller passed carry no language hint
\* (or no options were passed) its language sentence names the language the
\* table gives for the file's suffix taken case-insensitively, Rust for .rs,
\* and is absent when the table has no such suffix; when they carry a hint
\* the sentence names that hint.
C13_FileLanguageHint ==
  \A t \in Tasks :
    LET f == task[t] IN
    (f.op = "analyze_file" /\ f.ncomplete > 0)
    => /\ f.prompt.builder = "analysis"
       /\ IF f.given # NoHint THEN f.prompt.language = Sentence(f.given)
          ELSE IF \E e \in ExtToLang : SameIgnoringCase(e[1], f.suffix)
          THEN \E e \in ExtToLang :
                 /\ SameIgnoringCase(e[1], f.suffix)
                 /\ f.prompt.language = Sentence(e[2])
          ELSE f.prompt.language = <<>>
       /\ (f.given = NoHint /\ f.suffix = <<".", "r", "s">>)
            => f.prompt.language = Sentence("Rust")

\* C13 witness: analyze_file of a path ending in .RS, with options that carry
\* no hint, has requested a completion with the Rust sentence in the prompt.
C13_Witness ==
  /\ task[1].op = "analyze_file"
  /\ task[1].ncomplete = 1
  /\ task[1].given = NoHint
  /\ task[1].suffix = <<".", "R", "S">>
  /\ task[1].prompt.language = Sentence("Rust")

\* C13 witness for an explicit hint: the prompt for a .rs file names the
\* hint of the caller's options.
C13_WitnessExplicit ==
  /\ task[1].op = "analyze_file"
  /\ task[1].ncomplete = 1
  /\ task[1].given = "Go"
  /\ task[1].suffix = <<".", "r", "s">>
  /\ task[1].prompt.language = Sentence("Go")

\* C14: compare with an empty or whitespace-only snippet issues no HTTP
\* request and ends with ValueError, as analyze and analyze_quick do.
C14_CompareRejectsEmpty ==
  \A t \in Tasks :
    LET f == task[t] IN
    (f.op = "compare" /\ (Blank(f.raw) \/ Blank(f.raw2)))
    => /\ f.trace = <<>>
       /\ f.ncomplete = 0
       /\ Done(t) => (f.outcome = "error" /\ f.error.type = "ValueError")

\* The HTTP attempts of the transport request that ended at position i of a
\* trace: the "post" events since the last "request" before i.
Attempts(trace, i) ==
  LET reqs == {j \in 1..i : trace[j].e = "request"}
      start == CHOOSE j \in reqs : \A k \in reqs : k <= j
  IN {j \in start..i : trace[j].e = "post"}

\* C15: a transport request that gives up on persistent timeouts or network
\* errors has made exactly GroqConfig.max_retries HTTP attempts, and no
\* transport request makes more attempts than that.
C15_AttemptsMatchConfig ==
  \A t \in Tasks :
    LET f == task[t] IN
    \A i \in DOMAIN f.trace :
      /\ (f.trace[i].e = "fail" /\ f.trace[i].type = "RetryError")
           => Cardinality(Attempts(f.trace, i)) = cfg.max_retries
      /\ f.trace[i].e = "post"
           => Cardinality(Attempts(f.trace, i)) <= cfg.max_retries

\* C16: when complete has failed and every exchange of the call was answered
\* with an HTTP status other than 200 and 429, the error raised has as its
\* status_code the status of the last answer.
C16_TerminalCarriesStatus ==
  \A t \in Tasks :
    LET f == task[t]
        recvs == {i \in DOMAIN f.trace : f.trace[i].e = "recv"}
        last == CHOOSE i \in recvs : \A j \in recvs : j <= i
    IN
    (/\ Done(t)
     /\ f.op = "complete"
     /\ f.outcome = "error"
     /\ \A i \in recvs :
          f.trace[i].type # "timeout" /\ f.trace[i].status \notin {200, 429})
    => /\ f.error.type = "GroqAPIError"
       /\ f.error.status = f.trace[last].status

\* C17: for every provider, the request counter get_stats reports is the
\* number of completions complete has returned to its callers, and the token
\* counter is the sum of usage.total_tokens of the responses those
\* completions came from.
C17_CountersMatchReturned ==
  \A p \in DOMAIN providers :
    /\ GetStats(p).requests = providers[p].delivered
    /\ GetStats(p).total_tokens = providers[p].delivered_tokens

\* C17, the case of the same-model retry alone: a completion returned from
\* the request made after the rate-limit wait is counted.
C17_RetryCounted ==
  \A t \in Tasks :
    LET f == task[t] IN
    (/\ Done(t)
     /\ f.op = "complete"
     /\ f.outcome = "ok"
     /\ ncalls = 1
     /\ \A i \in DOMAIN f.trace :
          f.trace[i].e = "recv" =>
            (f.trace[i].type = "ok" /\ f.trace[i].status \in {200, 429}))
    => GetStats(f.prov).requests = 1

\* C18: an analyze or analyze_quick called by a task whose previous call was
\* a close() that has returned is not served from the cache: every result in
\* the cache at that point was cached before the close.
C18_CloseReleasesCache ==
  [][\A t \in Tasks :
       (/\ Done(t)
        /\ task[t].op = "close"
        /\ ncalls' = ncalls + 1
        /\ task'[t].op \in {"analyze", "analyze_quick"})
       => ~task'[t].hit]_vars

\* C19: with caching enabled, an analyze that finds for its code a stored
\* result of age at most the TTL (equal to it included) returns that result
\* from the cache, and one that finds a result older than the TTL does not.
C19_HonouredThroughTTL ==
  \A t \in Tasks :
    LET f == task[t] IN
    (/\ Done(t)
     /\ f.op = "analyze"
     /\ cfg.cache_enabled
     /\ f.prior # NoEntry)
    => IF f.at - f.prior.timestamp <= TTL
       THEN f.hit /\ f.outcome = "ok" /\ f.result = f.prior.result
       ELSE ~f.hit

\* C20: in a call of complete every request goes to the primary or the
\* fallback and the first goes to the primary; the fallback is requested only
\* when use_fallback is true and its name differs from the primary's, after
\* every request to the primary, each of which has failed by then; after an
\* exchange answered with a usable completion there is no further request or
\* HTTP attempt; and with the fallback disabled or equal to the primary all
\* requests (at most the first and the one after a rate-limit wait) go to
\* the primary.
C20_CandidateOrder ==
  \A t \in Tasks :
    LET f == task[t]
        tr == f.trace
        primary == cfg.model
        fallback == cfg.fallback_model
    IN
    f.op \in {"complete", "complete_json"} =>
      /\ \A i \in DOMAIN tr : tr[i].m \in {primary, fallback}
      /\ tr # <<>> => (tr[1].e = "request" /\ tr[1].m = primary)
      /\ fallback # primary =>
           \A i \in At(tr, "request", fallback) :
             /\ f.use_fallback
             /\ \A j \in At(tr, "request", primary) :
                  /\ j < i
                  /\ \E k \in At(tr, "fail", primary) : j < k /\ k < i
      /\ \A i \in Completed(tr, primary) \cup Completed(tr, fallback) :
           \A j \in DOMAIN tr : j > i => tr[j].e \notin {"request", "post"}
      /\ (~f.use_fallback \/ fallback = primary) =>
           /\ \A i \in DOMAIN tr : tr[i].m = primary
           /\ Cardinality(At(tr, "request", primary)) <= 2

\* C20 witness: with a distinct fallback configured and use_fallback false,
\* the primary answered 500 and complete failed without a request to the
\* fallback.
C20_Witness ==
  /\ Done(1)
  /\ task[1].op = "complete"
  /\ ~task[1].use_fallback
  /\ cfg.fallback_model # cfg.model
  /\ task[1].outcome = "error"
  /\ Answered(task[1].trace, "primary", {500}) # {}
  /\ At(task[1].trace, "request", "fallback") = {}

\* C20 witness for the order: the fallback was requested after two failed
\* requests to the primary and answered with a completion, which ended the
\* call.
C20_WitnessFallback ==
  /\ Done(1)
  /\ task[1].op = "complete"
  /\ task[1].use_fallback
  /\ Cardinality(At(task[1].trace, "request", "primary")) = 2
  /\ Completed(task[1].trace, "fallback") # {}
  /\ task[1].outcome = "ok"

\* C21: within one transport request an HTTP attempt other than the first
\* directly follows a backoff that directly follows a timeout or connection
\* error of the previous attempt; there are at most 3 attempts; and an
\* answer with status 429 or another non-200 status is directly followed by
\* the failure of the transport request, with a rate-limit error or an API
\* error carrying the status, so that no further attempt of that request is
\* made.
C21_TransportRetry ==
  \A t \in Tasks :
    LET tr == task[t].trace IN
    \A i \in DOMAIN tr :
      /\ tr[i].e = "post" =>
           /\ Cardinality(Attempts(tr, i)) <= 3
           /\ \/ tr[i - 1].e = "request"
              \/ /\ i > 2
                 /\ tr[i - 1].e = "backoff"
                 /\ tr[i - 2].e = "recv"
                 /\ tr[i - 2].type = "timeout"
      /\ (tr[i].e = "recv" /\ tr[i].type # "timeout" /\ tr[i].status # 200) =>
           /\ i < Len(tr)
           /\ tr[i + 1].e = "fail"
           /\ tr[i + 1].status = tr[i].status
           /\ tr[i + 1].type = IF tr[i].status = 429 THEN "GroqRateLimitError"
                                ELSE "GroqAPIError"
           /\ \A j \in (i + 1)..Len(tr) :
                tr[j].e = "post" => \E k \in (i + 1)..j : tr[k].e = "request"
      /\ (tr[i].e = "recv" /\ tr[i].type = "timeout") =>
           /\ i < Len(tr)
           /\ IF Cardinality(Attempts(tr, i)) < 3
              THEN tr[i + 1].e = "backoff"
              ELSE tr[i + 1].e = "fail" /\ tr[i + 1].type = "RetryError"

\* C21 witness: a transport request made three attempts that all timed out
\* and then failed, and a later one ended on its first attempt with 503.
C21_Witness ==
  \E i \in DOMAIN task[1].trace :
    /\ task[1].trace[i].e = "fail"
    /\ task[1].trace[i].type = "RetryError"
    /\ Cardinality(Attempts(task[1].trace, i)) = 3
    /\ \E j \in DOMAIN task[1].trace :
         /\ j > i
         /\ task[1].trace[j].e = "fail"
         /\ task[1].trace[j].status = 503
         /\ Cardinality(Attempts(task[1].trace, j)) = 1

\* C22 as stated: when analyze or analyze_quick has ended without a result,
\* the cache is exactly the cache the call found.
C22_CacheExactlyAsBefore ==
  \A t \in Tasks :
    LET f == task[t] IN
    (Done(t) /\ f.op \in {"analyze", "analyze_quick"} /\ f.outcome = "error")
    => cache = f.cache0

\* A result with every field built.
IsCompleteResult(res) ==
  res.id > 0 /\ res.conf \in ConfidenceMin..ConfidenceMax

\* C22 amended: while analyze or analyze_quick is in flight, and after it
\* has ended without a result (completion failure, parse failure,
\* result-construction failure, cancellation), every entry of the cache is
\* an entry the call found, unchanged, and the only entry the call found
\* that may be gone is the expired entry of its own code, which its lookup
\* removed; a call that returned a result from a completion left the cache it
\* found with its own code mapped to exactly that result; and every result
\* stored or returned is complete.
C22_NoPartialWrite ==
  \A t \in Tasks :
    LET f == task[t]
        own == HashCode(f.code)
        Kept(k) == k \in DOMAIN f.cache0 /\ cache[k] = f.cache0[k]
    IN
    f.op \in {"analyze", "analyze_quick"} =>
      /\ (~Done(t) \/ f.outcome = "error" \/ f.hit) =>
           /\ \A k \in DOMAIN cache : Kept(k)
           /\ \A k \in DOMAIN f.cache0 \ DOMAIN cache :
                /\ k = own
                /\ ~Blank(f.raw)
                /\ ~f.hit
                /\ f.at - f.cache0[k].timestamp >= TTL
      /\ (Done(t) /\ f.outcome = "ok" /\ ~f.hit) =>
           /\ own \in DOMAIN cache
           /\ cache[own].result = f.result
           /\ \A k \in DOMAIN cache \ {own} : Kept(k)
           /\ DOMAIN f.cache0 \subseteq DOMAIN cache
      /\ (Done(t) /\ f.outcome = "ok") => IsCompleteResult(f.result)
      /\ \A k \in DOMAIN cache : IsCompleteResult(cache[k].result)

\* C22 witness: a call that found the entry of its code expired was
\* cancelled; the expired entry is gone and the rest of the cache is as it
\* was.
C22_Witness ==
  /\ Done(1)
  /\ task[1].op = "analyze"
  /\ task[1].error.type = "CancelledError"
  /\ HashCode(task[1].code) \in DOMAIN task[1].cache0
  /\ HashCode(task[1].code) \notin DOMAIN cache
  /\ cache # Empty

\* C22 witness of a result-construction failure: the response parsed to an
\* object whose confidence_score is no number, and the cache is as the call
\* found it.
C22_WitnessConstruction ==
  /\ Done(1)
  /\ task[1].op = "analyze_quick"
  /\ task[1].error.type = "TypeError"
  /\ cache = task[1].cache0
  /\ cache # Empty

\* C23: a step that starts an analyze_file leaves language_hint of the
\* AnalysisOptions object the caller keeps as it was, so that a later
\* analyze_file with the same object derives the language from its own file.
C23_OptionsUnchanged ==
  [][\A t \in Tasks :
       (ncalls' = ncalls + 1 /\ task'[t].op = "analyze_file"
        /\ task'[t].pc # "idle" /\ task[t].pc \in {"idle", "done"})
       => options' = options]_vars

\* C24: the functions list of a result parsed from a response whose
\* functions value is a list holds one function for each entry of that list
\* that can be constructed (an object whose name is not null), in the order of
\* the response, named as the entry names it or "unknown"; the entries that
\* cannot be constructed are left out and the analysis does not fail for them.
C24_FunctionsParsed ==
  \A t \in Tasks :
    LET f == task[t]
        src == f.resp.functions.v
        good == {i \in DOMAIN src :
                   src[i].kind = "dict" /\ src[i].name # "null"}
        out == f.result.functions
        Nth(k) == CHOOSE i \in good : Cardinality({j \in good : j < i}) = k - 1
    IN
    (/\ Done(t)
     /\ f.op \in {"analyze", "analyze_quick"}
     /\ ~f.hit
     /\ f.value.kind = "dict"
     /\ f.resp.functions.k = "list"
     /\ f.resp.conf.k # "null"
     /\ f.resp.fields = "ok")
    => /\ f.outcome = "ok"
       /\ Len(out) = Cardinality(good)
       /\ \A k \in DOMAIN out :
            out[k].name = IF src[Nth(k)].name = "missing" THEN "unknown"
                          ELSE src[Nth(k)].name

\* C24 witness: a response listed g, an entry that cannot be constructed and
\* f, and the analysis returned the functions g and f.
C24_Witness ==
  /\ Done(1)
  /\ task[1].op = "analyze"
  /\ task[1].outcome = "ok"
  /\ Len(task[1].resp.functions.v) = 3
  /\ task[1].resp.functions.v[2] \in
       {[kind |-> "dict", name |-> "null"], [kind |-> "str", name |-> "missing"]}
  /\ task[1].result.functions = <<[name |-> "g"], [name |-> "f"]>>

\* C25: analyze_batch sleeps between successive items only: while it sleeps
\* there is an item still to analyse, and a batch of N >= 1 snippets that
\* has returned slept N - 1 times.
C25_PacingBetweenItems ==
  \A t \in Tasks :
    LET f == task[t] IN
    /\ (f.outer = "batch" /\ f.pc = "pacing") => f.items # <<>>
    /\ (Done(t) /\ f.op = "analyze_batch" /\ Len(f.snippets) >= 1)
         => f.pauses = Len(f.snippets) - 1

\* C26: a provider that has opened no client has none; a pending HTTP
\* request is on the open client of its provider; a client is opened only by
\* a step that issues a request on a provider whose client is absent or
\* closed, one client per such step; a request issued while the client is
\* open opens none; and a request issued after close opens a new client and
\* is pending on it.
C26_LazyReuse ==
  /\ [](\A t \in Tasks :
          /\ task[t].pc = "post" => providers[task[t].prov].client = "open"
          /\ \A q \in DOMAIN providers :
               providers[q].client = "none" <=> providers[q].opened = 0)
  /\ [][\A q \in DOMAIN providers' :
          LET old == IF q \in DOMAIN providers THEN providers[q] ELSE NewProvider
              new == providers'[q]
              issued == \E t \in Tasks :
                          /\ task'[t].pc = "post"
                          /\ task'[t].prov = q
                          /\ task'[t].trace # task[t].trace
          IN
          /\ new.opened # old.opened =>
               /\ issued
               /\ old.client \in {"none", "closed"}
               /\ new.opened = old.opened + 1
          /\ issued =>
               /\ new.client = "open"
               /\ new.opened = IF old.client = "open" THEN old.opened
                                ELSE old.opened + 1]_vars

\* C26 witness: a provider used directly answered a complete, was closed,
\* and answered a second complete on the second client it opened.
C26_Witness ==
  /\ Done(1)
  /\ task[1].op = "complete"
  /\ task[1].outcome = "ok"
  /\ task[1].prov = 1
  /\ providers[1].opened = 2
  /\ providers[1].client = "open"
  /\ providers[1].delivered = 2

\* C27: two tasks that analysed the same code on one facade and both missed
\* the cache each made a completion request of their own and got a result of
\* their own, and when both have returned the cache holds for that code the
\* result that was built and written last, not the earlier one.
C27_LastWriteWins ==
  \A t \in Tasks : \A u \in Tasks \ {t} :
    LET f == task[t]
        g == task[u]
        key == HashCode(f.code)
    IN
    (/\ f.op = "analyze" /\ g.op = "analyze"
     /\ ~Blank(f.raw) /\ f.code = g.code
     /\ ~f.hit /\ ~g.hit
     /\ f.pc # "idle" /\ g.pc # "idle")
    => /\ f.ncomplete = 1 /\ g.ncomplete = 1
       /\ (Done(t) /\ Done(u) /\ f.outcome = "ok" /\ g.outcome = "ok") =>
            /\ f.result.id # g.result.id
            /\ key \in DOMAIN cache
            /\ cache[key].result =
                 IF f.result.id > g.result.id THEN f.result ELSE g.result

\* C27 witness: both tasks missed the cache for the same code, both got a
\* result, and the cache holds the result of task 1, built after that of
\* task 2.
C27_Witness ==
  /\ Done(1) /\ Done(2)
  /\ task[1].op = "analyze" /\ task[2].op = "analyze"
  /\ task[1].code = task[2].code
  /\ ~task[1].hit /\ ~task[2].hit
  /\ task[1].outcome = "ok" /\ task[2].outcome = "ok"
  /\ task[2].result.id < task[1].result.id
  /\ cache[HashCode(task[1].code)].result = task[1].result
  /\ cache[HashCode(task[1].code)].result # task[2].result

\* C30: when a close of the facade has returned and no call is in flight,
\* every HTTP client that is open belongs to the provider the facade holds.
C30_NoOrphanConnection ==
  ((\A t \in Tasks : task[t].pc \in {"idle", "done"})
   /\ \E t \in Tasks : task[t].op = "close")
  => \A q \in DOMAIN providers :
       providers[q].client = "open" => fprovider = q

\* C28: every complete that has started ends; the requests of a call go to
\* the primary first and, once one has gone to the fallback, never to the
\* primary again; a cooldown wait directly follows a rate-limit failure of
\* the first request to a model and there is at most one per model; a model
\* gets at most 2 transport requests of at most 3 HTTP attempts each, 12
\* attempts in a call at most; and a call that tried every request without a
\* completion ends with an API error.
C28_CompleteTerminates ==
  /\ [](\A t \in Tasks :
          LET tr == task[t].trace
              posts == {i \in DOMAIN tr : tr[i].e = "post"}
          IN
          task[t].op = "complete" =>
            /\ \A m \in {"primary", "fallback"} :
                 /\ Cardinality(At(tr, "sleep", m)) <= 1
                 /\ Cardinality(At(tr, "request", m)) <= 2
                 /\ Cardinality(At(tr, "request", m))
                      <= 1 + Cardinality(At(tr, "sleep", m))
            /\ \A i \in posts : Cardinality(Attempts(tr, i)) <= 3
            /\ Cardinality(posts) <= 12
            /\ \A i \in At(tr, "request", "fallback") :
                 \A j \in At(tr, "request", "primary") : j < i
            /\ \A i \in DOMAIN tr :
                 tr[i].e = "sleep" =>
                   /\ tr[i - 1].e = "fail"
                   /\ tr[i - 1].status = 429
                   /\ tr[i - 1].m = tr[i].m
            /\ (Done(t) /\ task[t].outcome = "error") =>
                 task[t].error.type = "GroqAPIError")
  /\ \A t \in Tasks :
       (task[t].op = "complete" /\ task[t].pc \in {"post", "backoff", "cooldown"})
         ~> Done(t)

\* C28 witness: a complete with a distinct fallback ended with an error after
\* 12 HTTP attempts and one cooldown wait for each model.
C28_Witness ==
  /\ Done(1)
  /\ task[1].op = "complete"
  /\ task[1].outcome = "error"
  /\ Cardinality({i \in DOMAIN task[1].trace : task[1].trace[i].e = "post"}) = 12
  /\ Cardinality(At(task[1].trace, "sleep", "primary")) = 1
  /\ Cardinality(At(task[1].trace, "sleep", "fallback")) = 1
  /\ Cardinality(At(task[1].trace, "request", "fallback")) = 2

\* C29: the value complete_json hands to analyze or analyze_quick is a JSON
\* object, never another JSON value, and neither of them fails with the
\* AttributeError of reading a field of a value that is no object.
C29_OnlyObjectsReturned ==
  \A t \in Tasks :
    LET f == task[t] IN
    f.op \in {"analyze", "analyze_quick"} =>
      /\ f.value.kind # "scalar"
      /\ (Done(t) /\ f.outcome = "error") => f.error.type # "AttributeError"
====
